---- MODULE Spec2Model ----
(***************************************************************************)
(* Verification model of the StreamFlow timelock client library.           *)
(*                                                                         *)
(*   Spec / FairSpec : SolanaStreamClient.createMultiple, the batch        *)
(*                     orchestrator (build, sign-all, wrap, concurrent     *)
(*                     submission, partition of the settled results).      *)
(*   UnlockSpec      : the unlocked() method of the Stream records         *)
(*                     (Contract and EvmContract) over the unlock          *)
(*                     calculator.                                         *)
(*   OpSpec          : the single-item operations create,                  *)
(*                     createUnchecked, withdraw, cancel, transfer and     *)
(*                     topup, up to and through sign().                    *)
(*   ClientSpec      : one call of any operation, single-item or batch.    *)
(*   GetSpec         : get(), the two lookups, the object of decoded       *)
(*                     streams, the sort and the type filter.              *)
(*   GuardSpec       : handleContractError, the wrapper around an          *)
(*                     external call.                                      *)
(*   AmountSpec      : getBN followed by getNumberFromBN, in exact         *)
(*                     decimal arithmetic.                                 *)
(*   ClaimSpec       : SolanaDistributorClient.claim.                      *)
(***************************************************************************)
EXTENDS Integers, Sequences, FiniteSets, TLC

\* ------------------------------------------------------------------ bounds
MaxRecipients == 5
MaxTime == 7
MaxAccounts == 2

\* ------------------------------------------------------- batch: inputs
\* The recipient entries a caller may pass (IRecipient: recipient, amount).
RecipientEntries ==
  { [recipient |-> "r1", amount |-> 1], [recipient |-> "r2", amount |-> 2] }

SenderAddress == "sender"

NoTx == [kind |-> "none", meta |-> 0, amount |-> 0, signed |-> FALSE]

VARIABLES
  pc,                  \* position of the createMultiple call
  recipients,          \* data.recipients
  isNative,            \* ICreateStreamSolanaExt.isNative
  hasPublicKey,        \* sender.publicKey is available
  metadatas,           \* const metadatas
  metadataToRecipient, \* const metadataToRecipient
  batch,               \* const batch: BatchItem[]
  signed_batch,        \* const signed_batch: BatchItem[]
  signRequests,        \* the sign-all requests made to the signer so far
  prepareTx,           \* const prepareTx = signed_batch.pop()
  wrapStatus,          \* the wrap transaction: none, pending, fulfilled, rejected
  calls,               \* batchTransactionsCalls: one promise per submission
  responses,           \* what Promise.allSettled resolved to
  result               \* the value createMultiple returned

batchVars ==
  << pc, recipients, isNative, hasPublicKey, metadatas, metadataToRecipient,
     batch, signed_batch, signRequests, prepareTx, wrapStatus, calls,
     responses, result >>

NoResult == [txs |-> <<>>, metadatas |-> <<>>, metadataToRecipient |-> <<>>,
             errors |-> <<>>, returned |-> FALSE]

\* ------------------------------------------------------- unlock: state
VARIABLES
  stream,     \* the fetched resource (StreamResource / StreamAbiResult)
  kind,       \* the record class built from it: Contract or EvmContract
  nCalls,     \* how many times unlocked() was called on the record (0, 1, 2)
  now,        \* currentTimestamp of the latest call
  res,        \* what the latest call returned
  prevNow,    \* currentTimestamp of the call before it
  prevRes     \* what the call before it returned

unlockVars == << stream, kind, nCalls, now, res, prevNow, prevRes >>

\* ------------------------------------------------------- operations: state
VARIABLES
  op,                 \* the single-item operation that was called
  opPc,               \* position of that call
  ext,                \* its signer context: publicKey, isNative, partner
  params,             \* its data: id, amount, recipient, tokenId
  data,               \* const data = decodeStream(escrow.data)
  nativeInstructions, \* const nativeInstructions
  ixs,                \* const ixs: TransactionInstruction[]
  transaction,        \* const tx = new Transaction(...).add(...)
  effects,            \* the external calls made so far, in order
  returned            \* the signature the call returned

opVars ==
  << op, opPc, ext, params, data, nativeInstructions, ixs, transaction,
     effects, returned >>

VARIABLES
  error       \* what the running call threw

\* ------------------------------------------------------- get: state
VARIABLES
  getPc,          \* position of the get call
  query,          \* its parameters: wallet, type, direction
  ledger,         \* the stream accounts of the program, in the ledger's order
  accounts,       \* let accounts: Account[]
  sortedStreams   \* the list get returned

getVars == << getPc, query, ledger, accounts, sortedStreams >>

\* -------------------------------------- handleContractError: state
VARIABLES
  guardPc,        \* position of the handleContractError call
  func,           \* how the wrapped operation settles
  callback,       \* the optional code extractor
  funcCalls,      \* how many times func was invoked
  callbackCalls,  \* how many times callback was invoked
  guardOutcome    \* what the call returned or threw

guardVars ==
  << guardPc, func, callback, funcCalls, callbackCalls, guardOutcome >>

\* ------------------------------------------- getBN, getNumberFromBN: state
VARIABLES
  amountPc,       \* position of the conversion calls
  valueArg,          \* the number handed to getBN
  decimalsArg,       \* the decimals handed to both conversions
  bn,             \* what getBN gave
  number          \* what getNumberFromBN gave

amountVars == << amountPc, valueArg, decimalsArg, bn, number >>

\* ---------------------------------------------- distributor claim: state
VARIABLES
  claimPc,        \* position of the claim call
  invoker,        \* ext.invoker: publicKey is Null when the wallet has none
  claimData,      \* data: id, amountLocked, amountUnlocked, proof
  chain,          \* the accounts on the ledger during the call
  distributor,    \* const distributor = await MerkleDistributor.fetch(...)
  claimStatus,    \* const claimStatus = await ClaimStatus.fetch(...)
  claimIxs,       \* const ixs
  claimTx,        \* const tx = new Transaction(...).add(...ixs)
  claimEffects,   \* the external calls made so far, in order
  claimResult     \* { ixs, txId }

claimVars ==
  << claimPc, invoker, claimData, chain, distributor, claimStatus, claimIxs,
     claimTx, claimEffects, claimResult >>

utilVars == << guardVars, amountVars, claimVars >>

nonBatchVars == << unlockVars, opVars, getVars, utilVars >>
nonUnlockVars == << batchVars, opVars, getVars, utilVars, error >>
nonOpVars == << batchVars, unlockVars, getVars, utilVars >>
nonGetVars == << batchVars, unlockVars, opVars, utilVars >>
nonGuardVars ==
  << batchVars, unlockVars, opVars, getVars, amountVars, claimVars, error >>
nonAmountVars ==
  << batchVars, unlockVars, opVars, getVars, guardVars, claimVars, error >>
nonClaimVars ==
  << batchVars, unlockVars, opVars, getVars, guardVars, amountVars >>

vars == << batchVars, unlockVars, opVars, getVars, utilVars, error >>

\* a JavaScript value, as far as a catch clause can tell values apart
JsValue(type, message) ==
  [type |-> type, message |-> message, originalType |-> "", code |-> ""]

Undefined == JsValue("undefined", "")

\* no handleContractError call is running
IdleGuard ==
  /\ guardPc = "idle"
  /\ func = [settles |-> "resolve", with |-> Undefined]
  /\ callback = [supplied |-> FALSE, returns |-> ""]
  /\ funcCalls = 0
  /\ callbackCalls = 0
  /\ guardOutcome = [kind |-> "none", value |-> Undefined]

\* a number no conversion has produced yet
NoNumber == [kind |-> "none", m |-> 0, e |-> 0]

\* no conversion is running
IdleAmount ==
  /\ amountPc = "idle"
  /\ valueArg = NoNumber
  /\ decimalsArg = 0
  /\ bn = NoNumber
  /\ number = NoNumber

\* an account that was not fetched, or is not there
NoAccount == [exists |-> FALSE, mint |-> 0, tokenVault |-> 0]

NoClaimData ==
  [id |-> 0, amountLocked |-> 0, amountUnlocked |-> 0, proof |-> <<>>]

\* no claim call is running
IdleClaim ==
  /\ claimPc = "idle"
  /\ invoker = [publicKey |-> 0]
  /\ claimData = NoClaimData
  /\ chain = [distributors |-> {}, claimed |-> {}, tokenAccounts |-> {}]
  /\ distributor = NoAccount
  /\ claimStatus = [fetched |-> FALSE, exists |-> FALSE]
  /\ claimIxs = <<>>
  /\ claimTx = <<>>
  /\ claimEffects = <<>>
  /\ claimResult = [ixs |-> <<>>, txId |-> ""]

IdleUtil == IdleGuard /\ IdleAmount /\ IdleClaim

NoQuery == [wallet |-> 0, type |-> "all", direction |-> "all"]

\* no get call is running
IdleGet ==
  /\ getPc = "idle"
  /\ query = NoQuery
  /\ ledger = <<>>
  /\ accounts = <<>>
  /\ sortedStreams = <<>>

\* nothing was thrown
NoError == [class |-> "none", message |-> ""]

\* new Error(message)
Error(message) == [class |-> "Error", message |-> message]

\* what an awaited external call (ledger, signer) rejected with
Rejection(origin) == [class |-> "rejection", message |-> origin]

\* addresses (PublicKey values); Null is an absent one
Null == 0
Alice == 1
Bob == 2
Carol == 3
Dave == 4
STREAMFLOW_TREASURY_PUBLIC_KEY == 5
MintA == 6
NATIVE_MINT == 7
EscrowTokens == 8
StreamId == 9

NoExt == [publicKey |-> Null, isSignerWallet |-> FALSE, isNative |-> FALSE,
          partner |-> Null]

NoParams == [id |-> Null, amount |-> 0, recipient |-> Null, tokenId |-> Null]

NoData == [sender |-> Null, senderTokens |-> Null, recipient |-> Null,
           recipientTokens |-> Null, partner |-> Null, escrowTokens |-> Null,
           mint |-> Null]

\* no single-item operation is running
IdleOp ==
  /\ op = "none"
  /\ opPc = "idle"
  /\ ext = NoExt
  /\ params = NoParams
  /\ data = NoData
  /\ nativeInstructions = <<>>
  /\ ixs = <<>>
  /\ transaction = <<>>
  /\ effects = <<>>
  /\ returned = ""

NoStream ==
  [amount |-> 0, amount_per_period |-> 0, canceled_at |-> 0,
   cliff_amount |-> 0, closed |-> FALSE, current_pause_start |-> 0,
   end |-> 0, funds_unlocked_at_last_rate_change |-> 0,
   last_rate_change_time |-> 0, pause_cumulative |-> 0, period |-> 0,
   start |-> 0]

\* the unlock component at rest (createMultiple runs on its own)
IdleUnlock ==
  /\ stream = NoStream
  /\ kind = "none"
  /\ nCalls = 0
  /\ now = 0
  /\ res = 0
  /\ prevNow = 0
  /\ prevRes = 0

\* ------------------------------------------------------- batch: helpers
RECURSIVE SeqSum(_)
SeqSum(s) == IF s = <<>> THEN 0 ELSE s[1] + SeqSum(Tail(s))

\* recipients.reduce((acc, recipient) => recipient.amount.add(acc), new BN(0))
totalDepositedAmount_skipsFirst(rs) ==
  SeqSum([i \in 1..(Len(rs) - 1) |-> rs[i + 1].amount])

totalDepositedAmount(rs) ==
  SeqSum([i \in 1..Len(rs) |-> rs[i].amount])

\* Keypair.generate(): a fresh metadata key for the i-th prepared transaction
Keypair_generate_reused(i) == 1

Keypair_generate(i) == i

\* prepareStreamTransaction: the unsigned creation transaction of one recipient
prepareStreamTransaction(recipientData, meta) ==
  [kind |-> "create", meta |-> meta, amount |-> recipientData.amount,
   signed |-> FALSE]

\* the transaction built from prepareWrappedAccount's instructions
prepareTransaction(total) ==
  [kind |-> "wrap", meta |-> 0, amount |-> total, signed |-> FALSE]

\* signAllTransactionWithRecipients: every item signed, order and tags kept
signAllTransactionWithRecipients(items) ==
  [i \in 1..Len(items) |->
     [tx |-> [items[i].tx EXCEPT !.signed = TRUE],
      recipient |-> items[i].recipient]]

\* sendAndConfirmStreamRawTransaction: the settled value of one submission
BatchItemSuccess(item) ==
  [status |-> "fulfilled",
   value |-> [signature |-> item.tx.meta, recipient |-> item.recipient]]

BatchItemError(item) ==
  [status |-> "rejected",
   value |-> [recipient |-> item.recipient, error |-> "failed"]]

Pending(item) == [status |-> "pending", value |-> item]

RECURSIVE SelectStatus(_, _)
SelectStatus(rs, st) ==
  IF rs = <<>> THEN <<>>
  ELSE IF rs[1].status = st
       THEN <<rs[1].value>> \o SelectStatus(Tail(rs), st)
       ELSE SelectStatus(Tail(rs), st)

\* a plausible slip: the fulfilled filter is dropped
Successes_unfiltered(rs) ==
  [i \in 1..Len(rs) |->
     IF rs[i].status = "fulfilled" THEN rs[i].value.signature ELSE 0]

\* responses.filter(fulfilled).map(el => el.value).map(el => el.signature)
Successes(rs) ==
  LET vs == SelectStatus(rs, "fulfilled")
  IN  [i \in 1..Len(vs) |-> vs[i].signature]

\* responses.filter(rejected).map(el => el.reason)
Failures(rs) == SelectStatus(rs, "rejected")

\* ------------------------------------------------------- batch: Init
RecipientLists ==
  UNION { [1..n -> RecipientEntries] : n \in 0..MaxRecipients }

Init ==
  /\ IdleUnlock
  /\ IdleOp
  /\ IdleGet
  /\ IdleUtil
  /\ error = NoError
  /\ pc = "start"
  /\ recipients \in RecipientLists
  /\ isNative \in BOOLEAN
  /\ hasPublicKey \in BOOLEAN
  /\ metadatas = <<>>
  /\ metadataToRecipient = <<>>
  /\ batch = <<>>
  /\ signed_batch = <<>>
  /\ signRequests = <<>>
  /\ prepareTx = [tx |-> NoTx, recipient |-> ""]
  /\ wrapStatus = "none"
  /\ calls = <<>>
  /\ responses = <<>>
  /\ result = NoResult

\* ------------------------------------------------------- batch: actions
Throw ==
  /\ pc' = "thrown"
  /\ error' = Rejection("prepareStreamTransaction")
  /\ UNCHANGED << nonBatchVars, prepareTx, recipients, isNative, hasPublicKey, metadatas,
                  metadataToRecipient, batch, signed_batch, signRequests,
                  wrapStatus, calls, responses, result >>

\* if (!sender.publicKey) throw
CheckSender ==
  /\ pc = "start"
  /\ pc' = IF hasPublicKey THEN "build" ELSE "thrown"
  /\ error' = IF hasPublicKey THEN error
               ELSE Error("Sender's PublicKey is not available")
  /\ UNCHANGED << nonBatchVars, prepareTx, recipients, isNative, hasPublicKey, metadatas,
                  metadataToRecipient, batch, signed_batch, signRequests,
                  wrapStatus, calls, responses, result >>

\* one iteration of: for (const recipientData of recipients) { ... }
BuildNext ==
  /\ pc = "build"
  /\ Len(metadatas) < Len(recipients)
  /\ LET i == Len(metadatas) + 1
         recipientData == recipients[i]
         metadata == Keypair_generate(i)
         tx == prepareStreamTransaction(recipientData, metadata)
     IN  /\ metadataToRecipient' =
               [k \in (DOMAIN metadataToRecipient) \cup {metadata} |->
                  IF k = metadata THEN recipientData
                  ELSE metadataToRecipient[k]]
         /\ metadatas' = Append(metadatas, metadata)
         /\ batch' = Append(batch, [tx |-> tx,
                                    recipient |-> recipientData.recipient])
  /\ UNCHANGED << nonBatchVars, error, prepareTx, pc, recipients, isNative, hasPublicKey, signed_batch,
                  signRequests, wrapStatus, calls, responses, result >>

\* prepareStreamTransaction throws (bad address, blockhash fetch failure)
BuildFails ==
  /\ pc = "build"
  /\ Len(metadatas) < Len(recipients)
  /\ Throw

\* if (isNative) { ... batch.push({tx: prepareTransaction, recipient: sender}) }
PrepareWrap ==
  /\ pc = "build"
  /\ Len(metadatas) = Len(recipients)
  /\ isNative
  /\ batch' = Append(batch,
                [tx |-> prepareTransaction(totalDepositedAmount(recipients)),
                 recipient |-> SenderAddress])
  /\ pc' = "sign"
  /\ UNCHANGED << nonBatchVars, error, prepareTx, recipients, isNative, hasPublicKey, metadatas,
                  metadataToRecipient, signed_batch, signRequests, wrapStatus,
                  calls, responses, result >>

\* prepareWrappedAccount or getLatestBlockhash throws
PrepareWrapFails ==
  /\ pc = "build"
  /\ Len(metadatas) = Len(recipients)
  /\ isNative
  /\ Throw

SkipWrap ==
  /\ pc = "build"
  /\ Len(metadatas) = Len(recipients)
  /\ ~isNative
  /\ pc' = "sign"
  /\ UNCHANGED << nonBatchVars, error, prepareTx, recipients, isNative, hasPublicKey, metadatas,
                  metadataToRecipient, batch, signed_batch, signRequests,
                  wrapStatus, calls, responses, result >>

\* a plausible slip: one signature request per transaction of the batch
SignAll_perTransaction ==
  /\ pc = "sign"
  /\ signRequests' = signRequests \o [i \in 1..Len(batch) |-> <<batch[i]>>]
  /\ signed_batch' = signAllTransactionWithRecipients(batch)
  /\ pc' = IF isNative THEN "wrapSend" ELSE "submit"
  /\ UNCHANGED << nonBatchVars, error, prepareTx, recipients, isNative, hasPublicKey, metadatas,
                  metadataToRecipient, batch, wrapStatus, calls, responses,
                  result >>

\* const signed_batch = await signAllTransactionWithRecipients(sender, batch)
SignAll ==
  /\ pc = "sign"
  /\ signRequests' = Append(signRequests, batch)
  /\ signed_batch' = signAllTransactionWithRecipients(batch)
  /\ pc' = IF isNative THEN "wrapSend" ELSE "submit"
  /\ UNCHANGED << nonBatchVars, error, prepareTx, recipients, isNative, hasPublicKey, metadatas,
                  metadataToRecipient, batch, wrapStatus, calls, responses,
                  result >>

\* a plausible slip: the rejection is swallowed and the unsigned batch goes on
SignFails_unsignedSent ==
  /\ pc = "sign"
  /\ signRequests' = Append(signRequests, batch)
  /\ signed_batch' = batch
  /\ pc' = IF isNative THEN "wrapSend" ELSE "submit"
  /\ UNCHANGED << nonBatchVars, error, prepareTx, recipients, isNative, hasPublicKey, metadatas,
                  metadataToRecipient, batch, wrapStatus, calls,
                  responses, result >>

\* the signer rejects the request
SignFails ==
  /\ pc = "sign"
  /\ signRequests' = Append(signRequests, batch)
  /\ pc' = "thrown"
  /\ error' = Rejection("signAllTransactions")
  /\ UNCHANGED << nonBatchVars, prepareTx, recipients, isNative, hasPublicKey, metadatas,
                  metadataToRecipient, batch, signed_batch, wrapStatus, calls,
                  responses, result >>

\* const prepareTx = signed_batch.pop(); sendAndConfirm...(prepareTx) begins
SendWrap ==
  /\ pc = "wrapSend"
  /\ signed_batch' = SubSeq(signed_batch, 1, Len(signed_batch) - 1)
  /\ prepareTx' = signed_batch[Len(signed_batch)]
  /\ wrapStatus' = "pending"
  /\ pc' = "wrapWait"
  /\ UNCHANGED << nonBatchVars, error, recipients, isNative, hasPublicKey, metadatas,
                  metadataToRecipient, batch, signRequests, calls, responses,
                  result >>

\* the ledger confirms or rejects the wrap transaction
WrapSettles ==
  /\ wrapStatus = "pending"
  /\ wrapStatus' \in {"fulfilled", "rejected"}
  /\ UNCHANGED << nonBatchVars, error, prepareTx, pc, recipients, isNative, hasPublicKey, metadatas,
                  metadataToRecipient, batch, signed_batch, signRequests,
                  calls, responses, result >>

\* a plausible slip: the wrap submission is not awaited
AwaitWrap_notAwaited ==
  /\ pc = "wrapWait"
  /\ pc' = "submit"
  /\ UNCHANGED << nonBatchVars, error, prepareTx, recipients, isNative, hasPublicKey, metadatas,
                  metadataToRecipient, batch, signed_batch, signRequests,
                  wrapStatus, calls, responses, result >>

\* await sendAndConfirmStreamRawTransaction(this.connection, prepareTx!)
AwaitWrap ==
  /\ pc = "wrapWait"
  /\ wrapStatus \in {"fulfilled", "rejected"}
  /\ pc' = IF wrapStatus = "fulfilled" THEN "submit" ELSE "thrown"
  /\ error' = IF wrapStatus = "fulfilled" THEN error
               ELSE Rejection("sendAndConfirmStreamRawTransaction")
  /\ UNCHANGED << nonBatchVars, prepareTx, recipients, isNative, hasPublicKey, metadatas,
                  metadataToRecipient, batch, signed_batch, signRequests,
                  wrapStatus, calls, responses, result >>

\* signed_batch.map((el) => sendAndConfirmStreamRawTransaction(connection, el))
SubmitAll ==
  /\ pc = "submit"
  /\ calls' = [i \in 1..Len(signed_batch) |-> Pending(signed_batch[i])]
  /\ pc' = "await"
  /\ UNCHANGED << nonBatchVars, error, prepareTx, recipients, isNative, hasPublicKey, metadatas,
                  metadataToRecipient, batch, signed_batch, signRequests,
                  wrapStatus, responses, result >>

\* submission i fulfils with its signature
Fulfil(i) ==
  /\ calls[i].status = "pending"
  /\ calls' = [calls EXCEPT ![i] = BatchItemSuccess(calls[i].value)]
  /\ UNCHANGED << nonBatchVars, error, prepareTx, pc, recipients, isNative, hasPublicKey, metadatas,
                  metadataToRecipient, batch, signed_batch, signRequests,
                  wrapStatus, responses, result >>

\* submission i rejects with its error and recipient
Reject(i) ==
  /\ calls[i].status = "pending"
  /\ calls' = [calls EXCEPT ![i] = BatchItemError(calls[i].value)]
  /\ UNCHANGED << nonBatchVars, error, prepareTx, pc, recipients, isNative, hasPublicKey, metadatas,
                  metadataToRecipient, batch, signed_batch, signRequests,
                  wrapStatus, responses, result >>

\* a plausible slip: Promise.all, which rejects on the first rejection
AwaitAllSettled_all ==
  /\ pc = "await"
  /\ \/ /\ \E i \in DOMAIN calls : calls[i].status = "rejected"
        /\ pc' = "thrown"
        /\ responses' = responses
     \/ /\ \A i \in DOMAIN calls : calls[i].status = "fulfilled"
        /\ pc' = "partition"
        /\ responses' = calls
  /\ error' = IF \E i \in DOMAIN calls : calls[i].status = "rejected"
               THEN Rejection("sendAndConfirmStreamRawTransaction")
               ELSE error
  /\ UNCHANGED << nonBatchVars, prepareTx, recipients, isNative, hasPublicKey, metadatas,
                  metadataToRecipient, batch, signed_batch, signRequests,
                  wrapStatus, calls, result >>

\* a plausible slip: waiting for all to succeed rather than to settle
AwaitAllSettled_allSucceed ==
  /\ pc = "await"
  /\ \A i \in DOMAIN calls : calls[i].status = "fulfilled"
  /\ responses' = calls
  /\ pc' = "partition"
  /\ UNCHANGED << nonBatchVars, error, prepareTx, recipients, isNative, hasPublicKey,
                  metadatas, metadataToRecipient, batch, signed_batch,
                  signRequests, wrapStatus, calls, result >>

\* const responses = await Promise.allSettled(batchTransactionsCalls)
AwaitAllSettled ==
  /\ pc = "await"
  /\ \A i \in DOMAIN calls : calls[i].status # "pending"
  /\ responses' = calls
  /\ pc' = "partition"
  /\ UNCHANGED << nonBatchVars, error, prepareTx, recipients, isNative, hasPublicKey, metadatas,
                  metadataToRecipient, batch, signed_batch, signRequests,
                  wrapStatus, calls, result >>

\* partition of the responses and return
Return ==
  /\ pc = "partition"
  /\ result' = [txs |-> Successes(responses),
                metadatas |-> metadatas,
                metadataToRecipient |-> metadataToRecipient,
                errors |-> Failures(responses),
                returned |-> TRUE]
  /\ pc' = "done"
  /\ UNCHANGED << nonBatchVars, error, prepareTx, recipients, isNative, hasPublicKey, metadatas,
                  metadataToRecipient, batch, signed_batch, signRequests,
                  wrapStatus, calls, responses >>

Next ==
  \/ CheckSender
  \/ BuildNext
  \/ BuildFails
  \/ PrepareWrap
  \/ PrepareWrapFails
  \/ SkipWrap
  \/ SignAll
  \/ SignFails
  \/ SendWrap
  \/ WrapSettles
  \/ AwaitWrap
  \/ SubmitAll
  \/ \E i \in DOMAIN calls : Fulfil(i)
  \/ \E i \in DOMAIN calls : Reject(i)
  \/ AwaitAllSettled
  \/ Return

Spec == Init /\ [][Next]_vars

\* The runtime resumes createMultiple once the promise it awaits has settled,
\* and every submitted creation transaction eventually settles.
FairSpec ==
  /\ Init
  /\ [][Next]_vars
  /\ WF_vars(\E i \in DOMAIN calls : Fulfil(i) \/ Reject(i))
  /\ WF_vars(AwaitAllSettled)
  /\ WF_vars(Return)

\* ------------------------------------------------------- batch: claims
Submitted == { i \in DOMAIN calls : TRUE }
Rejected == { i \in DOMAIN calls : calls[i].status = "rejected" }
Fulfilled == { i \in DOMAIN calls : calls[i].status = "fulfilled" }
InFlight == { i \in DOMAIN calls : calls[i].status = "pending" }

\* C1: with native wrapping, the wrap transaction is the one popped off the
\* signed batch, it is submitted alone, and no creation transaction has been
\* submitted while the wrap transaction is still unconfirmed.
C1_WrapConfirmedBeforeCreation ==
  /\ wrapStatus # "none" => /\ isNative
                            /\ prepareTx.tx.kind = "wrap"
                            /\ prepareTx.tx.signed
  /\ wrapStatus = "pending" => Submitted = {}
  /\ (isNative /\ Submitted # {}) => wrapStatus = "fulfilled"

C1_Witness ==
  /\ isNative
  /\ wrapStatus = "fulfilled"
  /\ InFlight # {}

\* the state part of C2
C2_AllSubmitted ==
  /\ pc \in {"await", "partition", "done"} =>
       /\ Len(calls) = Len(recipients)
       /\ \A i \in 1..Len(recipients) :
            /\ signed_batch[i].tx.kind = "create"
            /\ signed_batch[i].tx.signed
            /\ signed_batch[i].tx.meta = metadatas[i]
  /\ Submitted # {} => pc # "thrown"
  /\ pc = "done" =>
       \A i \in Rejected :
         \E j \in DOMAIN result.errors : result.errors[j] = calls[i].value

\* C2: once concurrent submission has begun every signed creation
\* transaction is in the submitted set whatever the other submissions did,
\* createMultiple never throws from then on, and every rejection is in the
\* returned errors list.
C2_AllSubmittedNeverThrows ==
  /\ []C2_AllSubmitted
  /\ [][(pc \in {"await", "partition", "done"} => ~(pc' = "thrown"))]_vars

C2_Witness ==
  /\ pc = "done"
  /\ \E i, j \in DOMAIN calls :
       i < j /\ calls[i].status = "rejected" /\ calls[j].status = "fulfilled"

\* C3: each creation submission contributes to exactly one result list (its
\* transaction id to the successes if it fulfilled, its error with the failed
\* recipient to the errors if it rejected), successes + errors = N, 5
\* recipients with only item 3 failing give 4 successes and 1 error keyed to
\* recipient 3, and the wrap transaction is in neither list.
C3_PartitionOfOutcomes ==
  pc = "done" =>
    LET N == Len(recipients)
        txs == result.txs
        errors == result.errors
    IN  /\ Len(txs) + Len(errors) = N
        /\ Len(txs) = Cardinality(Fulfilled)
        /\ Len(errors) = Cardinality(Rejected)
        /\ \A i \in 1..N :
             Cardinality({ j \in DOMAIN txs : txs[j] = metadatas[i] })
               = IF i \in Fulfilled THEN 1 ELSE 0
        /\ \A r \in { recipients[i].recipient : i \in 1..N } :
             Cardinality({ j \in DOMAIN errors : errors[j].recipient = r })
               = Cardinality({ i \in Rejected : recipients[i].recipient = r })
        /\ \A j \in DOMAIN txs : \A k \in DOMAIN txs :
             j < k => \E a, b \in 1..N :
                        a < b /\ txs[j] = metadatas[a] /\ txs[k] = metadatas[b]
        /\ (N = 5 /\ Rejected = {3}) =>
             /\ Len(txs) = 4
             /\ Len(errors) = 1
             /\ errors[1].recipient = recipients[3].recipient
        /\ \A j \in DOMAIN errors : errors[j].recipient # SenderAddress
        /\ \A j \in DOMAIN txs : txs[j] # prepareTx.tx.meta

C3_Witness ==
  /\ pc = "done"
  /\ isNative
  /\ Len(recipients) = 5
  /\ Rejected = {3}
  /\ recipients[3].recipient # recipients[1].recipient

\* C4: createMultiple makes exactly one sign-all request, covering the whole
\* ordered batch (every creation transaction, then the wrap transaction if
\* present), and it has completed before anything is submitted.
C4_SingleSignAll ==
  /\ Len(signRequests) <= 1
  /\ (wrapStatus # "none" \/ Submitted # {} \/ pc \in {"await", "partition", "done"}) =>
       /\ Len(signRequests) = 1
       /\ signRequests[1] = batch
       /\ Len(batch) = Len(recipients) + (IF isNative THEN 1 ELSE 0)
       /\ \A i \in DOMAIN signed_batch : signed_batch[i].tx.signed
       /\ \A i \in InFlight : calls[i].value.tx.signed
       /\ wrapStatus # "none" => prepareTx.tx.signed

C4_Witness ==
  /\ pc = "await"
  /\ Len(recipients) >= 2
  /\ InFlight = DOMAIN calls
  /\ Len(signRequests) = 1

BatchBuilt == pc \in {"sign", "wrapSend", "wrapWait", "submit", "await",
                      "partition", "done"}

\* C5: with native wrapping the batch is the creation transactions followed by
\* exactly one wrap transaction whose amount is the sum of the recipients'
\* deposited amounts and whose tag is the sender's address; without it the
\* batch is exactly one creation transaction per recipient.
C5_WrapAppended ==
  BatchBuilt =>
    LET N == Len(recipients)
    IN  /\ \A i \in 1..N :
             /\ batch[i].tx.kind = "create"
             /\ batch[i].tx.amount = recipients[i].amount
             /\ batch[i].recipient = recipients[i].recipient
        /\ isNative =>
             /\ Len(batch) = N + 1
             /\ batch[N + 1].tx.kind = "wrap"
             /\ batch[N + 1].tx.amount = SeqSum([i \in 1..N |-> recipients[i].amount])
             /\ batch[N + 1].recipient = SenderAddress
        /\ ~isNative => Len(batch) = N

C5_Witness ==
  /\ pc = "sign"
  /\ isNative
  /\ Len(recipients) >= 3
  /\ \E i, j \in DOMAIN recipients : recipients[i].amount # recipients[j].amount

\* C6: the result carries one stream identifier per attempted recipient, in
\* input order, whether its submission succeeded or failed, and the recipient
\* map sends each identifier to the recipient entry it was built for.
C6_IdentifierPerRecipient ==
  pc = "done" =>
    LET N == Len(recipients)
    IN  /\ Len(result.metadatas) = N
        /\ DOMAIN result.metadataToRecipient = { result.metadatas[i] : i \in 1..N }
        /\ \A i \in 1..N :
             /\ result.metadatas[i] = batch[i].tx.meta
             /\ result.metadataToRecipient[result.metadatas[i]] = recipients[i]

C6_Witness ==
  /\ pc = "done"
  /\ Len(recipients) >= 2
  /\ Rejected # {}
  /\ Fulfilled # {}
  /\ recipients[1] # recipients[2]

\* C7: if every submitted creation transaction eventually settles,
\* createMultiple eventually returns and the result holds the outcome of every
\* item, failed ones included.
C7_EventuallyReturns ==
  (pc = "await") ~>
    (/\ pc = "done"
     /\ result.returned
     /\ Len(result.txs) = Cardinality(Fulfilled)
     /\ Len(result.errors) = Cardinality(Rejected)
     /\ Fulfilled \cup Rejected = 1..Len(recipients))

C7_Witness ==
  /\ pc = "done"
  /\ result.returned
  /\ Len(calls) >= 3
  /\ Rejected = {1}

\* ======================================================= unlock calculator
Min(a, b) == IF a < b THEN a ELSE b
Max(a, b) == IF a > b THEN a ELSE b

Times == 0..MaxTime

\* A linear schedule on the scale of seconds: start = cliff = 1000, 100 at
\* the cliff, then 50 per period of 100 up to a deposit of 1000.
ExampleStream ==
  [amount |-> 1000, amount_per_period |-> 50, canceled_at |-> 0,
   cliff_amount |-> 100, closed |-> FALSE, current_pause_start |-> 0,
   end |-> 2800, funds_unlocked_at_last_rate_change |-> 0,
   last_rate_change_time |-> 0, pause_cumulative |-> 0, period |-> 100,
   start |-> 1000]

\* the timestamps ExampleStream is asked at
ExampleTimes == {999, 1000, 1250, 10000}

\* The small resources a ledger fetch may hand to the record constructors.
SmallStreamResources ==
  { r \in [amount : {3, 5},
           amount_per_period : {1, 4},
           canceled_at : {0, 4},
           cliff_amount : {0, 1},
           closed : BOOLEAN,
           current_pause_start : {0, 3},
           end : {6},
           funds_unlocked_at_last_rate_change : {0, 2},
           last_rate_change_time : {0, 1, 4},
           pause_cumulative : {0, 1},
           period : {0, 1, 2},
           start : {2}] :
      r.last_rate_change_time = 0 => r.funds_unlocked_at_last_rate_change = 0 }

\* The resources a ledger fetch may hand to the record constructors.
StreamResources == SmallStreamResources \cup {ExampleStream}

\* the timestamps a caller asks stream r at
TimesOf(r) == IF r = ExampleStream THEN ExampleTimes ELSE Times

\* constructor(stream: StreamResource, tokenId) of Contract: the fields the
\* unlock schedule reads. The resource has no cliff; cliff is its start.
Contract(r) ==
  [canceledAt |-> r.canceled_at,
   end |-> r.end,
   start |-> r.start,
   depositedAmount |-> r.amount,
   period |-> r.period,
   amountPerPeriod |-> r.amount_per_period,
   cliff |-> r.start,
   cliffAmount |-> r.cliff_amount,
   closed |-> r.closed,
   currentPauseStart |-> r.current_pause_start,
   pauseCumulative |-> r.pause_cumulative,
   lastRateChangeTime |-> r.last_rate_change_time,
   fundsUnlockedAtLastRateChange |-> r.funds_unlocked_at_last_rate_change]

\* constructor(stream: StreamAbiResult) of EvmContract
EvmContract(r) ==
  [canceledAt |-> r.canceled_at,
   end |-> r.end,
   start |-> r.start,
   depositedAmount |-> r.amount,
   period |-> r.period,
   amountPerPeriod |-> r.amount_per_period,
   cliff |-> r.start,
   cliffAmount |-> r.cliff_amount,
   closed |-> r.closed,
   currentPauseStart |-> r.current_pause_start,
   pauseCumulative |-> r.pause_cumulative,
   lastRateChangeTime |-> r.last_rate_change_time,
   fundsUnlockedAtLastRateChange |-> r.funds_unlocked_at_last_rate_change]

\* The unlock schedule (design section 4.2), steps 1 to 7 with the pause
\* handling and the edge cases, over the fields s of a Stream at time t0.
\* The pause term is taken as written there: it counts from the call's own
\* timestamp t0, not from the effective time t.
UnlockCalculator(s, t0) ==
  LET t == IF s.canceledAt > 0 THEN Min(t0, s.canceledAt) ELSE t0
      referencePoint == IF s.lastRateChangeTime > s.cliff
                        THEN s.lastRateChangeTime ELSE s.cliff
      paused == s.pauseCumulative
                + (IF s.currentPauseStart > 0
                   THEN t0 - s.currentPauseStart ELSE 0)
      elapsed == Max(0, t - referencePoint - paused)
      baseline == IF s.lastRateChangeTime > 0
                  THEN s.fundsUnlockedAtLastRateChange ELSE s.cliffAmount
  IN  IF s.closed \/ t >= s.end THEN s.depositedAmount
      ELSE IF t < s.cliff THEN 0
      ELSE IF s.period = 0 THEN s.depositedAmount
      ELSE Min(baseline + (elapsed \div s.period) * s.amountPerPeriod,
               s.depositedAmount)

\* calculateUnlockedAmount({...stream, currentTimestamp}): sees every field
calculateUnlockedAmount(args) == UnlockCalculator(args, args.currentTimestamp)

\* calculateUnlocked(depositedAmount, cliff, cliffAmount, end,
\* currentTimestamp, lastRateChangeTime, period, amountPerPeriod,
\* fundsUnlockedAtLastRateChange): sees its nine arguments and nothing else
calculateUnlocked(depositedAmount, cliff, cliffAmount, end, currentTimestamp, lastRateChangeTime, period, amountPerPeriod, fundsUnlockedAtLastRateChange) ==
  UnlockCalculator(
    [depositedAmount |-> depositedAmount, cliff |-> cliff,
     cliffAmount |-> cliffAmount, end |-> end,
     lastRateChangeTime |-> lastRateChangeTime, period |-> period,
     amountPerPeriod |-> amountPerPeriod,
     fundsUnlockedAtLastRateChange |-> fundsUnlockedAtLastRateChange,
     canceledAt |-> 0, closed |-> FALSE, currentPauseStart |-> 0,
     pauseCumulative |-> 0],
    currentTimestamp)

\* a plausible slip: depositedAmount and amountPerPeriod change places
Contract_unlocked_amountsSwapped(this, currentTimestamp) ==
  calculateUnlocked(this.amountPerPeriod, this.cliff, this.cliffAmount,
                    this.end, currentTimestamp, this.lastRateChangeTime,
                    this.period, this.depositedAmount,
                    this.fundsUnlockedAtLastRateChange)

\* a plausible slip: currentTimestamp and lastRateChangeTime change places
Contract_unlocked_timesSwapped(this, currentTimestamp) ==
  calculateUnlocked(this.depositedAmount, this.cliff, this.cliffAmount,
                    this.end, this.lastRateChangeTime, currentTimestamp,
                    this.period, this.amountPerPeriod,
                    this.fundsUnlockedAtLastRateChange)

\* a plausible slip: cliff and period change places
Contract_unlocked_periodSwapped(this, currentTimestamp) ==
  calculateUnlocked(this.depositedAmount, this.period, this.cliffAmount,
                    this.end, currentTimestamp, this.lastRateChangeTime,
                    this.cliff, this.amountPerPeriod,
                    this.fundsUnlockedAtLastRateChange)

\* Contract.unlocked(currentTimestamp)
Contract_unlocked(this, currentTimestamp) ==
  calculateUnlocked(this.depositedAmount, this.cliff, this.cliffAmount,
                    this.end, currentTimestamp, this.lastRateChangeTime,
                    this.period, this.amountPerPeriod,
                    this.fundsUnlockedAtLastRateChange)

\* EvmContract.unlocked(currentTimestamp)
EvmContract_unlocked(this, currentTimestamp) ==
  calculateUnlockedAmount([currentTimestamp |-> currentTimestamp] @@ this)

\* the batch component at rest (unlocked() is called on a fetched record)
IdleBatch ==
  /\ pc = "idle"
  /\ recipients = <<>>
  /\ isNative = FALSE
  /\ hasPublicKey = TRUE
  /\ metadatas = <<>>
  /\ metadataToRecipient = <<>>
  /\ batch = <<>>
  /\ signed_batch = <<>>
  /\ signRequests = <<>>
  /\ prepareTx = [tx |-> NoTx, recipient |-> ""]
  /\ wrapStatus = "none"
  /\ calls = <<>>
  /\ responses = <<>>
  /\ result = NoResult

InitUnlock ==
  /\ IdleBatch
  /\ IdleOp
  /\ IdleGet
  /\ IdleUtil
  /\ error = NoError
  /\ stream \in StreamResources
  /\ kind \in {"Contract", "EvmContract"}
  /\ nCalls = 0
  /\ now = 0
  /\ res = 0
  /\ prevNow = 0
  /\ prevRes = 0

\* the caller's clock only moves forward between two calls
CallUnlocked(t, value) ==
  /\ nCalls = 0 \/ t > now
  /\ nCalls' = Min(nCalls + 1, 2)
  /\ prevNow' = now
  /\ prevRes' = res
  /\ now' = t
  /\ res' = value
  /\ UNCHANGED << nonUnlockVars, stream, kind >>

ContractUnlocked(t) ==
  /\ kind = "Contract"
  /\ CallUnlocked(t, Contract_unlocked(Contract(stream), t))

EvmUnlocked(t) ==
  /\ kind = "EvmContract"
  /\ CallUnlocked(t, EvmContract_unlocked(EvmContract(stream), t))

NextUnlock ==
  \/ \E t \in TimesOf(stream) : ContractUnlocked(t)
  \/ \E t \in TimesOf(stream) : EvmUnlocked(t)

UnlockSpec == InitUnlock /\ [][NextUnlock]_vars

\* ------------------------------------------------------- unlock: claims
\* the last timestamp up to which the schedule is required to be monotonic
CanceledAtOrEnd ==
  IF stream.canceled_at > 0 THEN stream.canceled_at ELSE stream.end

\* C8: every value unlocked() returns lies between 0 and depositedAmount,
\* also for timestamps far after the end and for timestamps before the start,
\* the cliff or the last rate change.
C8_UnlockedWithinDeposit ==
  nCalls >= 1 => (0 <= res /\ res <= stream.amount)

C8_Witness ==
  /\ nCalls = 2
  /\ kind = "Contract"
  /\ stream.amount_per_period > stream.amount
  /\ stream.last_rate_change_time > stream.start
  /\ prevNow >= stream.start
  /\ prevNow < stream.last_rate_change_time
  /\ now > stream.end
  /\ res = stream.amount

\* C9: for two calls at t1 < t2, t2 not later than canceledAt (or end when
\* not canceled), the earlier call returned no more than the later one, also
\* for streams with a rate-change checkpoint.
C9_UnlockedMonotonic ==
  (nCalls = 2 /\ prevNow < now /\ now <= CanceledAtOrEnd) => prevRes <= res

C9_Witness ==
  /\ nCalls = 2
  /\ stream.last_rate_change_time > 0
  /\ prevNow < now
  /\ now <= CanceledAtOrEnd
  /\ 0 < prevRes
  /\ prevRes < res
  /\ res < stream.amount

\* C10: for a canceled stream a call at canceledAt and a later call return
\* the same amount.
C10_CancellationPinned ==
  (/\ nCalls = 2
   /\ stream.canceled_at > 0
   /\ prevNow = stream.canceled_at
   /\ now > stream.canceled_at) => res = prevRes

\* C11: a closed stream unlocks depositedAmount at every timestamp (of the
\* boundary values: 0 one second before the cliff, cliffAmount or
\* fundsUnlockedAtLastRateChange at the cliff, depositedAmount at the end).
C11_ClosedUnlocksAll ==
  (nCalls >= 1 /\ stream.closed) => res = stream.amount

\* the time the schedule is evaluated at: the call's, or canceledAt if earlier
EffectiveTime ==
  IF stream.canceled_at > 0 THEN Min(now, stream.canceled_at) ELSE now

\* C12: for a stream that is not closed, at an effective time t with
\* cliff <= t < end and period > 0, unlocked is
\* min(baseline + floor((t - referencePoint) / period) * amountPerPeriod,
\* depositedAmount), baseline being fundsUnlockedAtLastRateChange after a
\* rate change and cliffAmount otherwise, referencePoint the later of cliff
\* and lastRateChangeTime; ExampleStream unlocks 0 at 999, 100 at 1000,
\* 200 at 1250 and 1000 at 10000. Stated for the streams the formula is
\* plain for: never paused, and t not before the reference point.
C12_LinearSchedule ==
  LET t == EffectiveTime
      baseline == IF stream.last_rate_change_time > 0
                  THEN stream.funds_unlocked_at_last_rate_change
                  ELSE stream.cliff_amount
      referencePoint == IF stream.last_rate_change_time > stream.start
                        THEN stream.last_rate_change_time ELSE stream.start
  IN  nCalls >= 1 =>
        /\ (/\ ~stream.closed
            /\ stream.pause_cumulative = 0
            /\ stream.current_pause_start = 0
            /\ stream.start <= t
            /\ referencePoint <= t
            /\ t < stream.end
            /\ stream.period > 0)
           => res = Min(baseline + ((t - referencePoint) \div stream.period)
                                     * stream.amount_per_period,
                        stream.amount)
        /\ stream = ExampleStream =>
             /\ now = 999 => res = 0
             /\ now = 1000 => res = 100
             /\ now = 1250 => res = 200
             /\ now = 10000 => res = 1000

\* C13: unlocked() returns a number for every stream and timestamp, and a
\* stream with period = 0 unlocks in one shot: from the cliff on it returns
\* the whole depositedAmount (nothing is divided by the period).
C13_ZeroPeriodOneShot ==
  nCalls >= 1 =>
    /\ res \in Nat
    /\ (stream.period = 0 /\ now >= stream.start) => res = stream.amount

C13_Witness ==
  /\ nCalls = 2
  /\ stream.period = 0
  /\ ~stream.closed
  /\ stream.cliff_amount < stream.amount
  /\ prevNow < stream.start
  /\ prevRes = 0
  /\ now = stream.start
  /\ now < stream.end
  /\ res = stream.amount

\* C14: while a stream that carries pause bookkeeping is paused
\* (currentPauseStart > 0) the unlocked amount does not change: two calls
\* during the pause return the same amount. Stated for streams that are
\* neither closed nor canceled, before their end.
C14_ConstantWhilePaused ==
  (/\ nCalls = 2
   /\ ~stream.closed
   /\ stream.canceled_at = 0
   /\ stream.current_pause_start > 0
   /\ stream.current_pause_start <= prevNow
   /\ prevNow < now
   /\ now < stream.end) => res = prevRes

\* ------------------------------------------------------- operations: helpers
Ops == {"create", "createUnchecked", "withdraw", "cancel", "transfer", "topup"}

\* the operations that work on an existing stream account
StreamOps == {"withdraw", "cancel", "transfer", "topup"}

\* ata(mint, owner): the associated token account, one per pair
ata(mint, owner) == 100 + 10 * mint + owner

\* PublicKey.findProgramAddress([Buffer.from("strm"), metadata], programId)
findProgramAddress(metadata) == 300 + metadata

\* the metadata account of a created stream
MetadataKey == 10 + Keypair_generate(1)

\* what decodeStream returns for the account stored at StreamId
LedgerStream ==
  [sender |-> Alice, senderTokens |-> ata(MintA, Alice),
   recipient |-> Bob, recipientTokens |-> ata(MintA, Bob),
   partner |-> Carol, escrowTokens |-> EscrowTokens, mint |-> MintA]

\* what decodeStream throws on bytes that are not a stream account
DecodeFailure == [class |-> "DecodeError", message |-> "decodeStream"]

\* an instruction of the timelock program: its name, accounts and amount
Instruction(name, keys, amount) ==
  [name |-> name, accounts |-> keys, amount |-> amount]

\* prepareWrappedAccount(connection, senderAddress, amount)
prepareWrappedAccount(senderAddress, amount) ==
  << Instruction("wrap",
                 [sender |-> senderAddress,
                  senderTokens |-> ata(NATIVE_MINT, senderAddress)],
                 amount) >>

\* the accounts create hands to createStreamInstruction
createAccounts(p, e) ==
  LET mintPublicKey == IF e.isNative THEN p.tokenId ELSE NATIVE_MINT
      partnerPublicKey == IF e.partner # Null THEN e.partner
                          ELSE STREAMFLOW_TREASURY_PUBLIC_KEY
  IN  [sender |-> e.publicKey,
       senderTokens |-> ata(mintPublicKey, e.publicKey),
       recipient |-> p.recipient,
       metadata |-> MetadataKey,
       escrowTokens |-> findProgramAddress(MetadataKey),
       recipientTokens |-> ata(mintPublicKey, p.recipient),
       streamflowTreasury |-> STREAMFLOW_TREASURY_PUBLIC_KEY,
       streamflowTreasuryTokens |->
         ata(mintPublicKey, STREAMFLOW_TREASURY_PUBLIC_KEY),
       partner |-> partnerPublicKey,
       partnerTokens |-> ata(mintPublicKey, partnerPublicKey),
       mint |-> p.tokenId]

\* the accounts createUnchecked hands to createUncheckedStreamInstruction
createUncheckedAccounts(p, e) ==
  [sender |-> e.publicKey,
   senderTokens |-> ata(p.tokenId, e.publicKey),
   metadata |-> MetadataKey,
   escrowTokens |-> findProgramAddress(MetadataKey),
   mint |-> p.tokenId]

\* SystemProgram.createAccount({fromPubkey, newAccountPubkey, ...})
createMetadataInstruction(e) ==
  Instruction("createAccount",
              [fromPubkey |-> e.publicKey, newAccountPubkey |-> MetadataKey],
              0)

\* a plausible slip: the recipient's token account derived from the invoker
withdrawAccounts_fromInvoker(p, e, d) ==
  [authority |-> e.publicKey,
   recipient |-> e.publicKey,
   recipientTokens |-> ata(d.mint, e.publicKey),
   metadata |-> p.id,
   escrowTokens |-> d.escrowTokens,
   streamflowTreasury |-> STREAMFLOW_TREASURY_PUBLIC_KEY,
   streamflowTreasuryTokens |-> ata(d.mint, STREAMFLOW_TREASURY_PUBLIC_KEY),
   partner |-> d.partner,
   partnerTokens |-> ata(d.mint, d.partner),
   mint |-> d.mint]

\* the accounts withdraw hands to withdrawStreamInstruction
withdrawAccounts(p, e, d) ==
  [authority |-> e.publicKey,
   recipient |-> e.publicKey,
   recipientTokens |-> d.recipientTokens,
   metadata |-> p.id,
   escrowTokens |-> d.escrowTokens,
   streamflowTreasury |-> STREAMFLOW_TREASURY_PUBLIC_KEY,
   streamflowTreasuryTokens |-> ata(d.mint, STREAMFLOW_TREASURY_PUBLIC_KEY),
   partner |-> d.partner,
   partnerTokens |-> ata(d.mint, d.partner),
   mint |-> d.mint]

\* the accounts cancel hands to cancelStreamInstruction
cancelAccounts(p, e, d) ==
  [authority |-> e.publicKey,
   sender |-> d.sender,
   senderTokens |-> d.senderTokens,
   recipient |-> d.recipient,
   recipientTokens |-> d.recipientTokens,
   metadata |-> p.id,
   escrowTokens |-> d.escrowTokens,
   streamflowTreasury |-> STREAMFLOW_TREASURY_PUBLIC_KEY,
   streamflowTreasuryTokens |-> ata(d.mint, STREAMFLOW_TREASURY_PUBLIC_KEY),
   partner |-> d.partner,
   partnerTokens |-> ata(d.mint, d.partner),
   mint |-> d.mint]

\* the accounts transfer hands to transferStreamInstruction
transferAccounts(p, e, d) ==
  [authority |-> e.publicKey,
   newRecipient |-> p.recipient,
   newRecipientTokens |-> ata(d.mint, p.recipient),
   metadata |-> p.id,
   mint |-> d.mint]

\* the accounts topup hands to topupStreamInstruction
topupAccounts(p, e, d) ==
  [sender |-> e.publicKey,
   senderTokens |-> d.senderTokens,
   metadata |-> p.id,
   escrowTokens |-> d.escrowTokens,
   streamflowTreasury |-> STREAMFLOW_TREASURY_PUBLIC_KEY,
   streamflowTreasuryTokens |-> ata(d.mint, STREAMFLOW_TREASURY_PUBLIC_KEY),
   partner |-> d.partner,
   partnerTokens |-> ata(d.mint, d.partner),
   mint |-> d.mint]

\* const ixs of each operation
BuiltInstructions(o, p, e, d) ==
  CASE o = "create" ->
         << Instruction("create", createAccounts(p, e), p.amount) >>
    [] o = "createUnchecked" ->
         << createMetadataInstruction(e),
            Instruction("createUnchecked", createUncheckedAccounts(p, e),
                        p.amount) >>
    [] o = "withdraw" ->
         << Instruction("withdraw", withdrawAccounts(p, e, d), p.amount) >>
    [] o = "cancel" ->
         << Instruction("cancel", cancelAccounts(p, e, d), 0) >>
    [] o = "transfer" ->
         << Instruction("transfer", transferAccounts(p, e, d), 0) >>
    [] o = "topup" ->
         << Instruction("topup", topupAccounts(p, e, d), p.amount) >>

\* ------------------------------------------------------- operations: actions
\* a caller's call of one operation; a Keypair always has its publicKey
InitOp ==
  /\ IdleBatch
  /\ IdleUnlock
  /\ IdleGet
  /\ IdleUtil
  /\ error = NoError
  /\ op \in Ops
  /\ opPc = "start"
  /\ ext \in [publicKey : {Null, Alice, Bob}, isSignerWallet : BOOLEAN,
              isNative : BOOLEAN, partner : {Null, Carol}]
  /\ ext.publicKey = Null => ext.isSignerWallet
  /\ op \notin {"create", "createUnchecked", "topup"} => ~ext.isNative
  /\ op \notin {"create", "createUnchecked"} => ext.partner = Null
  /\ params \in [id : {Null, StreamId}, amount : {0, 1, 2},
                 recipient : {Null, Bob, Dave}, tokenId : {Null, MintA}]
  /\ params.id = StreamId <=> op \in StreamOps
  /\ params.amount = 0 <=> op \in {"cancel", "transfer"}
  /\ params.recipient = Null
       <=> op \notin {"create", "createUnchecked", "transfer"}
  /\ params.tokenId = MintA <=> op \in {"create", "createUnchecked"}
  /\ data = NoData
  /\ nativeInstructions = <<>>
  /\ ixs = <<>>
  /\ transaction = <<>>
  /\ effects = <<>>
  /\ returned = ""

\* throw e out of the running operation
OpThrow(e) ==
  /\ opPc' = "thrown"
  /\ error' = e

\* the step after the publicKey check
AfterCheck ==
  CASE op = "create" -> "wrap"
    [] op = "createUnchecked" -> "rent"
    [] OTHER -> "fetch"

\* a plausible slip: the publicKey is not checked
CheckPublicKey_unchecked ==
  /\ opPc = "start"
  /\ opPc' = AfterCheck
  /\ error' = error
  /\ UNCHANGED << nonOpVars, op, ext, params, data, nativeInstructions, ixs,
                  transaction, effects, returned >>

\* if (!sender.publicKey) throw new Error(...) / if (!invoker.publicKey) ...
CheckPublicKey ==
  /\ opPc = "start"
  /\ IF ext.publicKey = Null
     THEN OpThrow(Error(IF op \in StreamOps
                        THEN "Invoker's PublicKey is not available"
                        ELSE "Sender's PublicKey is not available"))
     ELSE /\ opPc' = AfterCheck
          /\ error' = error
  /\ UNCHANGED << nonOpVars, op, ext, params, data, nativeInstructions, ixs,
                  transaction, effects, returned >>

\* await this.connection.getMinimumBalanceForRentExemption(METADATA_ACC_SIZE)
GetMinimumBalanceForRentExemption ==
  /\ opPc = "rent"
  /\ effects' = Append(effects, "getMinimumBalanceForRentExemption")
  /\ \E ok \in BOOLEAN :
       IF ok THEN opPc' = "wrap" /\ error' = error
       ELSE OpThrow(Rejection("getMinimumBalanceForRentExemption"))
  /\ UNCHANGED << nonOpVars, op, ext, params, data, nativeInstructions, ixs,
                  transaction, returned >>

\* a plausible slip: a missing account is not noticed
GetAccountInfo_unchecked ==
  /\ opPc = "fetch"
  /\ effects' = Append(effects, "getAccountInfo")
  /\ \E outcome \in {"rejected", "absent", "undecodable", "stream"} :
       CASE outcome = "rejected" ->
              OpThrow(Rejection("getAccountInfo")) /\ data' = data
         [] outcome = "absent" ->
              /\ data' = data
              /\ opPc' = IF op = "topup" THEN "wrap" ELSE "build"
              /\ error' = error
         [] outcome = "undecodable" ->
              OpThrow(DecodeFailure) /\ data' = data
         [] outcome = "stream" ->
              /\ data' = LedgerStream
              /\ opPc' = IF op = "topup" THEN "wrap" ELSE "build"
              /\ error' = error
  /\ UNCHANGED << nonOpVars, op, ext, params, nativeInstructions, ixs,
                  transaction, returned >>

\* const escrow = await this.connection.getAccountInfo(streamPublicKey);
\* if (!escrow?.data) throw ...; const data = decodeStream(escrow.data)
GetAccountInfo ==
  /\ opPc = "fetch"
  /\ effects' = Append(effects, "getAccountInfo")
  /\ \E outcome \in {"rejected", "absent", "undecodable", "stream"} :
       CASE outcome = "rejected" ->
              OpThrow(Rejection("getAccountInfo")) /\ data' = data
         [] outcome = "absent" ->
              OpThrow(Error("Couldn't get account info")) /\ data' = data
         [] outcome = "undecodable" ->
              OpThrow(DecodeFailure) /\ data' = data
         [] outcome = "stream" ->
              /\ data' = LedgerStream
              /\ opPc' = IF op = "topup" THEN "wrap" ELSE "build"
              /\ error' = error
  /\ UNCHANGED << nonOpVars, op, ext, params, nativeInstructions, ixs,
                  transaction, returned >>

\* isNative ? await prepareWrappedAccount(connection, publicKey, amount) : []
PrepareWrappedAccount ==
  /\ opPc = "wrap"
  /\ IF ext.isNative
     THEN /\ effects' = Append(effects, "prepareWrappedAccount")
          /\ \E ok \in BOOLEAN :
               IF ok
               THEN /\ nativeInstructions' =
                         prepareWrappedAccount(ext.publicKey, params.amount)
                    /\ opPc' = "build"
                    /\ error' = error
               ELSE /\ OpThrow(Rejection("prepareWrappedAccount"))
                    /\ nativeInstructions' = nativeInstructions
     ELSE /\ nativeInstructions' = <<>>
          /\ opPc' = "build"
          /\ UNCHANGED << effects, error >>
  /\ UNCHANGED << nonOpVars, op, ext, params, data, ixs, transaction,
                  returned >>

\* ixs.push(...StreamInstruction(...))
BuildInstructions ==
  /\ opPc = "build"
  /\ ixs' = BuiltInstructions(op, params, ext, data)
  /\ opPc' = "hash"
  /\ UNCHANGED << nonOpVars, error, op, ext, params, data,
                  nativeInstructions, transaction, effects, returned >>

\* a plausible slip: the wrap instructions added after the stream instruction
GetLatestBlockhash_wrapLast ==
  /\ opPc = "hash"
  /\ effects' = Append(effects, "getLatestBlockhash")
  /\ \E ok \in BOOLEAN :
       IF ok
       THEN /\ transaction' = ixs \o nativeInstructions
            /\ opPc' = "sign"
            /\ error' = error
       ELSE /\ OpThrow(Rejection("getLatestBlockhash"))
            /\ transaction' = transaction
  /\ UNCHANGED << nonOpVars, op, ext, params, data, nativeInstructions, ixs,
                  returned >>

\* const hash = await this.connection.getLatestBlockhash(commitment);
\* const tx = new Transaction({...}).add(...nativeInstructions, ...ixs)
GetLatestBlockhash ==
  /\ opPc = "hash"
  /\ effects' = Append(effects, "getLatestBlockhash")
  /\ \E ok \in BOOLEAN :
       IF ok
       THEN /\ transaction' = nativeInstructions \o ixs
            /\ opPc' = "sign"
            /\ error' = error
       ELSE /\ OpThrow(Rejection("getLatestBlockhash"))
            /\ transaction' = transaction
  /\ UNCHANGED << nonOpVars, op, ext, params, data, nativeInstructions, ixs,
                  returned >>

\* sign(), first half: the signer signs, the transaction is serialized and
\* its parameters are checked
Sign ==
  /\ opPc = "sign"
  /\ effects' = Append(effects, IF ext.isSignerWallet THEN "signTransaction"
                                ELSE "partialSign")
  /\ \E outcome \in {"signed", "rejected", "unsigned"} :
       CASE outcome = "signed" -> opPc' = "send" /\ error' = error
         [] outcome = "rejected" -> OpThrow(Rejection("signTransaction"))
         [] outcome = "unsigned" ->
              OpThrow(Error("Error with transaction parameters."))
  /\ UNCHANGED << nonOpVars, op, ext, params, data, nativeInstructions, ixs,
                  transaction, returned >>

\* a plausible slip: a failed submission is sent again
SendAndConfirmRawTransaction_retry ==
  /\ opPc = "send"
  /\ effects' = Append(effects, "sendAndConfirmRawTransaction")
  /\ \E ok \in BOOLEAN :
       IF ok
       THEN opPc' = "done" /\ returned' = "signature" /\ error' = error
       ELSE IF Len(effects) < 8
            THEN UNCHANGED << opPc, returned, error >>
            ELSE /\ OpThrow(Rejection("sendAndConfirmRawTransaction"))
                 /\ returned' = returned
  /\ UNCHANGED << nonOpVars, op, ext, params, data, nativeInstructions, ixs,
                  transaction >>

\* sign(), second half: await sendAndConfirmRawTransaction(connection, rawTx,
\* confirmationStrategy)
SendAndConfirmRawTransaction ==
  /\ opPc = "send"
  /\ effects' = Append(effects, "sendAndConfirmRawTransaction")
  /\ \E ok \in BOOLEAN :
       IF ok
       THEN opPc' = "done" /\ returned' = "signature" /\ error' = error
       ELSE /\ OpThrow(Rejection("sendAndConfirmRawTransaction"))
            /\ returned' = returned
  /\ UNCHANGED << nonOpVars, op, ext, params, data, nativeInstructions, ixs,
                  transaction >>

NextOp ==
  \/ CheckPublicKey
  \/ GetMinimumBalanceForRentExemption
  \/ GetAccountInfo
  \/ PrepareWrappedAccount
  \/ BuildInstructions
  \/ GetLatestBlockhash
  \/ Sign
  \/ SendAndConfirmRawTransaction

OpSpec == InitOp /\ [][NextOp]_vars

\* a client of which one operation is called, single-item or createMultiple
ClientSpec == (Init \/ InitOp) /\ [][Next \/ NextOp]_vars

\* ------------------------------------------------------- operations: claims
\* how many times the external call e was made
Count(e) == Cardinality({i \in DOMAIN effects : effects[i] = e})

\* the signature requests made to the signer
SignCount == Count("signTransaction") + Count("partialSign")

\* the submissions made to the ledger
SendCount == Count("sendAndConfirmRawTransaction")

\* createMultiple has done nothing yet on the ledger or with the signer
BatchUntouched ==
  /\ metadatas = <<>>
  /\ batch = <<>>
  /\ signRequests = <<>>
  /\ wrapStatus = "none"
  /\ calls = <<>>

NoStreamFetched == Count("getAccountInfo") = 1 /\ data = NoData

RoutingFields ==
  {"sender", "senderTokens", "recipient", "recipientTokens", "partner",
   "partnerTokens", "escrowTokens", "mint"}

\* the routing accounts as the decoded stream d gives them
RoutingOf(d) ==
  [sender |-> d.sender, senderTokens |-> d.senderTokens,
   recipient |-> d.recipient, recipientTokens |-> d.recipientTokens,
   partner |-> d.partner, partnerTokens |-> ata(d.mint, d.partner),
   escrowTokens |-> d.escrowTokens, mint |-> d.mint]

\* the routing accounts of the instruction built that come from the signer
FromInvoker ==
  CASE op = "withdraw" -> {"recipient"}
    [] op = "topup" -> {"sender"}
    [] OTHER -> {}

\* C17 as stated: in withdraw, cancel and topup every routing account of the
\* instruction built (sender, recipient, partner, their token accounts, the
\* escrow token account, the mint) is the one of the stream decoded in that
\* call, none comes from the caller; so calls that differ in caller data
\* other than the stream id build the same routing accounts.
C17_RoutingFromStream ==
  (op \in {"withdraw", "cancel", "topup"} /\ ixs # <<>>)
    => \A f \in RoutingFields \cap DOMAIN ixs[1].accounts :
         ixs[1].accounts[f] = RoutingOf(LedgerStream)[f]

\* C17, amended: in withdraw, cancel and topup the routing accounts of the
\* instruction built are those of the stream decoded in that call, except
\* that withdraw names the invoker as recipient and topup names the invoker
\* as sender.
C17_RoutingFromStreamButInvoker ==
  (op \in {"withdraw", "cancel", "topup"} /\ ixs # <<>>)
    => /\ data = LedgerStream
       /\ \A f \in RoutingFields \cap DOMAIN ixs[1].accounts :
            ixs[1].accounts[f] = IF f \in FromInvoker THEN ext.publicKey
                                 ELSE RoutingOf(data)[f]

C17_Witness ==
  /\ op = "withdraw"
  /\ ext.publicKey = Alice
  /\ ixs # <<>>
  /\ ixs[1].accounts.recipient = Alice
  /\ ixs[1].accounts.recipientTokens = ata(MintA, Bob)
  /\ ixs[1].accounts.partner = Carol

\* C18: a single-item operation asks for one signature and submits its
\* transaction at most once in a call; when signing, submission or
\* confirmation fails the call throws that failure and nothing is submitted
\* (again) after it.
C18_SignedAndSubmittedOnce ==
  /\ SignCount <= 1
  /\ SendCount <= 1
  /\ SendCount <= SignCount
  /\ opPc = "done" => SignCount = 1 /\ SendCount = 1
  /\ (opPc = "thrown" /\ SignCount = 1 /\ SendCount = 0)
       => error \in {Rejection("signTransaction"),
                     Error("Error with transaction parameters.")}
  /\ (opPc = "thrown" /\ SendCount = 1)
       => error = Rejection("sendAndConfirmRawTransaction")

C18_Witness ==
  /\ op = "withdraw"
  /\ opPc = "thrown"
  /\ SignCount = 1
  /\ SendCount = 1
  /\ error = Rejection("sendAndConfirmRawTransaction")
  /\ returned = ""

\* the positions of the wrap instructions in the transaction
WrapPositions ==
  {i \in DOMAIN transaction : transaction[i].name = "wrap"}

\* the positions of the stream instructions in the transaction
StreamPositions == DOMAIN transaction \ WrapPositions

\* C19: when a native deposit is asked for, create, createUnchecked and topup
\* put the wrap instructions before the stream instruction in one
\* transaction, signed once and submitted once; when it is not asked for the
\* transaction has no wrap instruction.
C19_WrapFirstInOneTransaction ==
  (op \in {"create", "createUnchecked", "topup"} /\ transaction # <<>>)
    => /\ ext.isNative => /\ WrapPositions # {}
                          /\ \A i \in WrapPositions :
                               \A j \in StreamPositions : i < j
       /\ ~ext.isNative => WrapPositions = {}
       /\ StreamPositions # {}
       /\ SignCount <= 1
       /\ SendCount <= 1
       /\ opPc = "done" => SignCount = 1 /\ SendCount = 1

C19_Witness ==
  /\ op = "createUnchecked"
  /\ ext.isNative
  /\ opPc = "done"
  /\ Len(transaction) = 3
  /\ transaction[1].name = "wrap"
  /\ transaction[3].name = "createUnchecked"
  /\ SendCount = 1

\* ------------------------------------------------------- get: helpers
\* the stream accounts a ledger may hold: DecodedStream fields get reads
LedgerAccounts ==
  [sender : {Alice, Bob}, recipient : {Alice, Bob}, start : {1, 2},
   canTopup : BOOLEAN]

\* the ledgers: up to MaxAccounts stream accounts, each at its own address
Ledgers ==
  UNION { [1..n -> LedgerAccounts] : n \in 0..MaxAccounts }

\* the address of the stream account at position i of the ledger
PubkeyAt(i) == 20 + i

\* the Account at position i of the ledger: its address and its data
AccountAt(l, i) == [pubkey |-> PubkeyAt(i), account |-> l[i]]

\* getProgramAccounts(connection, wallet, offset, programId): the accounts
\* whose field at the offset is the wallet
getProgramAccounts(l, wallet, offset) ==
  LET all == [i \in DOMAIN l |-> AccountAt(l, i)]
      matches(a) == IF offset = "STREAM_STRUCT_OFFSET_SENDER"
                    THEN a.account.sender = wallet
                    ELSE a.account.recipient = wallet
  IN  SelectSeq(all, matches)

\* account.pubkey.toBase58(): the address as an object key
toBase58(pubkey) == << "base58", pubkey >>

\* new Contract(decodeStream(account.account.data))
DecodedContract(raw) ==
  [sender |-> raw.sender, recipient |-> raw.recipient, start |-> raw.start,
   canTopup |-> raw.canTopup]

\* a plausible slip: every account is pushed onto a list of entries
ObjectSet_push(obj, key, value) ==
  Append(obj, [key |-> key, value |-> value])

\* {...streams, [key]: value}: an object keeps one value per key, in the
\* order the keys were first set
ObjectSet(obj, key, value) ==
  IF \E i \in DOMAIN obj : obj[i].key = key
  THEN [i \in DOMAIN obj |->
          IF obj[i].key = key THEN [key |-> key, value |-> value]
          ELSE obj[i]]
  ELSE Append(obj, [key |-> key, value |-> value])

\* accounts.forEach((account) => { streams = {...streams, [key]: decoded} })
RECURSIVE CollectStreams(_, _)
CollectStreams(streams, accs) ==
  IF accs = <<>> THEN streams
  ELSE CollectStreams(
         ObjectSet(streams, toBase58(Head(accs).pubkey),
                   DecodedContract(Head(accs).account)),
         Tail(accs))

\* a JavaScript number, which may be NaN
Number(n) == [nan |-> FALSE, value |-> n]
NaN == [nan |-> TRUE, value |-> 0]

\* stream.startTime: a property the decoded record does not have
startTime(s) ==
  IF "startTime" \in DOMAIN s THEN Number(s.startTime) ELSE NaN

\* ([, stream1], [, stream2]) => stream2.startTime - stream1.startTime
comparefn(entry1, entry2) ==
  LET a == startTime(entry2.value)
      b == startTime(entry1.value)
  IN  IF a.nan \/ b.nan THEN NaN ELSE Number(a.value - b.value)

\* the comparison Array.prototype.sort makes: a NaN result counts as 0
SortCompare(x, y) ==
  LET v == comparefn(x, y) IN IF v.nan THEN 0 ELSE v.value

\* insert e into the sorted list after every element not greater than it
RECURSIVE Insert(_, _)
Insert(sorted, e) ==
  IF sorted = <<>> THEN << e >>
  ELSE IF SortCompare(Head(sorted), e) <= 0
       THEN << Head(sorted) >> \o Insert(Tail(sorted), e)
       ELSE << e >> \o sorted

\* Array.prototype.sort, which is stable
RECURSIVE Sort(_, _)
Sort(sorted, rest) ==
  IF rest = <<>> THEN sorted
  ELSE Sort(Insert(sorted, Head(rest)), Tail(rest))

\* a plausible slip: the two type filters change places
GetResult_swapped(accs, type) ==
  LET entries == Sort(<<>>, CollectStreams(<<>>, accs))
      isStream(e) == e.value.canTopup
      isVesting(e) == ~e.value.canTopup
  IN  IF type = "all" THEN entries
      ELSE IF type = "stream" THEN SelectSeq(entries, isVesting)
      ELSE SelectSeq(entries, isStream)

\* the list get returns for the fetched accounts
GetResult(accs, type) ==
  LET entries == Sort(<<>>, CollectStreams(<<>>, accs))
      isStream(e) == e.value.canTopup
      isVesting(e) == ~e.value.canTopup
  IN  IF type = "all" THEN entries
      ELSE IF type = "stream" THEN SelectSeq(entries, isStream)
      ELSE SelectSeq(entries, isVesting)

\* ------------------------------------------------------- get: actions
InitGet ==
  /\ IdleBatch
  /\ IdleUnlock
  /\ IdleOp
  /\ IdleUtil
  /\ error = NoError
  /\ getPc = "start"
  /\ query \in [wallet : {Alice}, type : {"all", "stream", "vesting"},
                direction : {"all", "outgoing", "incoming"}]
  /\ ledger \in Ledgers
  /\ accounts = <<>>
  /\ sortedStreams = <<>>

\* a ledger lookup rejects
GetThrow ==
  /\ getPc' = "thrown"
  /\ error' = Rejection("getProgramAccounts")
  /\ UNCHANGED << accounts >>

\* const outgoingAccounts = await getProgramAccounts(..., OFFSET_SENDER, ...)
GetOutgoingAccounts ==
  /\ getPc = "start"
  /\ query.direction = "all"
  /\ \E ok \in BOOLEAN :
       IF ok
       THEN /\ accounts' = getProgramAccounts(ledger, query.wallet,
                                              "STREAM_STRUCT_OFFSET_SENDER")
            /\ getPc' = "incoming"
            /\ error' = error
       ELSE GetThrow
  /\ UNCHANGED << nonGetVars, query, ledger, sortedStreams >>

\* const incomingAccounts = await getProgramAccounts(..., OFFSET_RECIPIENT,
\* ...); accounts = [...outgoingAccounts, ...incomingAccounts]
GetIncomingAccounts ==
  /\ getPc = "incoming"
  /\ \E ok \in BOOLEAN :
       IF ok
       THEN /\ accounts' = accounts \o
                 getProgramAccounts(ledger, query.wallet,
                                    "STREAM_STRUCT_OFFSET_RECIPIENT")
            /\ getPc' = "collect"
            /\ error' = error
       ELSE GetThrow
  /\ UNCHANGED << nonGetVars, query, ledger, sortedStreams >>

\* accounts = await getProgramAccounts(connection, wallet, offset, programId)
GetAccounts ==
  /\ getPc = "start"
  /\ query.direction # "all"
  /\ \E ok \in BOOLEAN :
       IF ok
       THEN /\ accounts' = getProgramAccounts(ledger, query.wallet,
                 IF query.direction = "outgoing"
                 THEN "STREAM_STRUCT_OFFSET_SENDER"
                 ELSE "STREAM_STRUCT_OFFSET_RECIPIENT")
            /\ getPc' = "collect"
            /\ error' = error
       ELSE GetThrow
  /\ UNCHANGED << nonGetVars, query, ledger, sortedStreams >>

\* the rest of get: decode into streams, sort the entries, filter, return
ReturnStreams ==
  /\ getPc = "collect"
  /\ sortedStreams' = GetResult(accounts, query.type)
  /\ getPc' = "done"
  /\ UNCHANGED << nonGetVars, error, query, ledger, accounts >>

NextGet ==
  \/ GetOutgoingAccounts
  \/ GetIncomingAccounts
  \/ GetAccounts
  \/ ReturnStreams

GetSpec == InitGet /\ [][NextGet]_vars

\* ------------------------------------------------------- get: claims
\* the positions of the returned list that hold the stream at address k
PositionsOf(k) ==
  {j \in DOMAIN sortedStreams : sortedStreams[j].key = toBase58(k)}

\* the ledger positions of the streams the wallet sent to itself
SelfStreams ==
  {i \in DOMAIN ledger : /\ ledger[i].sender = query.wallet
                         /\ ledger[i].recipient = query.wallet}

\* C20 as stated: get with direction = all does not de-duplicate: a stream
\* whose sender and recipient are both the queried wallet is in the returned
\* list twice.
C20_SelfStreamTwice ==
  (getPc = "done" /\ query.direction = "all" /\ query.type = "all")
    => \A i \in SelfStreams : Cardinality(PositionsOf(PubkeyAt(i))) = 2

\* C20, amended: get with direction = all returns one entry per stream
\* address: a stream whose sender and recipient are both the queried wallet
\* is fetched by both lookups and is in the returned list once.
C20_SelfStreamOnce ==
  (getPc = "done" /\ query.direction = "all" /\ query.type = "all")
    => /\ \A i \in DOMAIN ledger :
            Cardinality(PositionsOf(PubkeyAt(i)))
              = IF \/ ledger[i].sender = query.wallet
                   \/ ledger[i].recipient = query.wallet
                THEN 1 ELSE 0
       /\ Len(accounts) = Len(sortedStreams) + Cardinality(SelfStreams)

C20_Witness ==
  /\ getPc = "done"
  /\ query.direction = "all"
  /\ query.type = "all"
  /\ Len(ledger) = 2
  /\ SelfStreams = {2}
  /\ Len(accounts) = 3
  /\ Len(sortedStreams) = 2
  /\ Cardinality(PositionsOf(PubkeyAt(2))) = 1

\* C21: the list get returns is sorted by start, descending: of two adjacent
\* entries the earlier one starts no earlier than the later one, for every
\* direction and type.
C21_SortedDescending ==
  getPc = "done"
    => \A j \in 1..(Len(sortedStreams) - 1) :
         sortedStreams[j].value.start >= sortedStreams[j + 1].value.start

\* C22: the list get returns is sorted by start time, ascending, as the
\* documentation of get says.
C22_SortedAscending ==
  getPc = "done"
    => \A j \in 1..(Len(sortedStreams) - 1) :
         sortedStreams[j].value.start <= sortedStreams[j + 1].value.start

\* the sorted entries of everything fetched, before the type filter
Unfiltered == GetResult(accounts, "all")

\* the position of the stream with key k among the unfiltered entries
UnfilteredPosition(k) ==
  CHOOSE p \in DOMAIN Unfiltered : Unfiltered[p].key = k

\* the type filter keeps a stream with this canTopup flag
Keeps(type, canTopup) ==
  \/ type = "all"
  \/ type = "stream" /\ canTopup
  \/ type = "vesting" /\ ~canTopup

\* C23: get filters on canTopup only, after decoding: type = stream returns
\* exactly the fetched streams with canTopup true, type = vesting exactly
\* those with canTopup false, type = all every fetched stream, and the
\* entries kept are in the order they had before the filter.
C23_FilterOnCanTopup ==
  getPc = "done"
    => /\ \A j \in DOMAIN sortedStreams :
            /\ Keeps(query.type, sortedStreams[j].value.canTopup)
            /\ \E i \in DOMAIN accounts :
                 /\ sortedStreams[j].key = toBase58(accounts[i].pubkey)
                 /\ sortedStreams[j].value
                      = DecodedContract(accounts[i].account)
       /\ \A i \in DOMAIN accounts :
            Keeps(query.type, accounts[i].account.canTopup)
              => \E j \in DOMAIN sortedStreams :
                   sortedStreams[j].key = toBase58(accounts[i].pubkey)
       /\ \A j, k \in DOMAIN sortedStreams :
            j < k => UnfilteredPosition(sortedStreams[j].key)
                       < UnfilteredPosition(sortedStreams[k].key)

C23_Witness ==
  /\ getPc = "done"
  /\ query.type = "stream"
  /\ query.direction = "outgoing"
  /\ Len(accounts) = 2
  /\ ~accounts[1].account.canTopup
  /\ accounts[2].account.canTopup
  /\ Len(sortedStreams) = 1
  /\ sortedStreams[1].key = toBase58(accounts[2].pubkey)

\* =================================================================
\* handleContractError: the wrapper around every external call
\* =================================================================

\* err instanceof Error: Error and its subclasses
InstanceOfError(err) == err.type \in {"Error", "TypeError"}

\* new ContractError(error, code): keeps the original error and the code
ContractError(err, code) ==
  [type |-> "ContractError", message |-> err.message,
   originalType |-> err.type, code |-> code]

\* what the wrapped operation may resolve with
ResolvedValues == {JsValue("string", "txId1"), JsValue("string", "txId2"),
                   JsValue("number", "7"), Undefined}

\* what the wrapped operation may throw
Throwables ==
  {JsValue("Error", "0x1770"), JsValue("Error", "timeout"),
   JsValue("TypeError", "not a function"),
   JsValue("string", "aborted"), JsValue("AbortSignal", "cancelled"),
   Undefined}

Funcs ==
  [settles : {"resolve"}, with : ResolvedValues]
    \cup [settles : {"reject"}, with : Throwables]

\* callback returns string | null
Callbacks ==
  {[supplied |-> FALSE, returns |-> ""]}
    \cup [supplied : {TRUE}, returns : {"E1", "E2", "null"}]

InitGuard ==
  /\ IdleBatch
  /\ IdleUnlock
  /\ IdleOp
  /\ IdleGet
  /\ IdleClaim
  /\ IdleAmount
  /\ error = NoError
  /\ guardPc = "start"
  /\ func \in Funcs
  /\ callback \in Callbacks
  /\ funcCalls = 0
  /\ callbackCalls = 0
  /\ guardOutcome = [kind |-> "none", value |-> Undefined]

\* try { ... func() ... }
CallFunc ==
  /\ guardPc = "start"
  /\ guardPc' = "awaiting"
  /\ funcCalls' = funcCalls + 1
  /\ UNCHANGED << func, callback, callbackCalls, guardOutcome >>
  /\ UNCHANGED nonGuardVars

\* return await func();
ReturnAwaited ==
  /\ guardPc = "awaiting"
  /\ func.settles = "resolve"
  /\ guardPc' = "returned"
  /\ guardOutcome' = [kind |-> "returned", value |-> func.with]
  /\ UNCHANGED << func, callback, funcCalls, callbackCalls >>
  /\ UNCHANGED nonGuardVars

ThrowWithCode_codeDropped ==
  /\ guardPc = "awaiting"
  /\ func.settles = "reject"
  /\ InstanceOfError(func.with)
  /\ callback.supplied
  /\ guardPc' = "thrown"
  /\ callbackCalls' = callbackCalls + 1
  /\ guardOutcome' =
       [kind |-> "thrown", value |-> ContractError(func.with, "")]
  /\ UNCHANGED << func, callback, funcCalls >>
  /\ UNCHANGED nonGuardVars

\* if (callback) throw new ContractError(err, callback(err));
ThrowWithCode ==
  /\ guardPc = "awaiting"
  /\ func.settles = "reject"
  /\ InstanceOfError(func.with)
  /\ callback.supplied
  /\ guardPc' = "thrown"
  /\ callbackCalls' = callbackCalls + 1
  /\ guardOutcome' =
       [kind |-> "thrown",
        value |-> ContractError(func.with, callback.returns)]
  /\ UNCHANGED << func, callback, funcCalls >>
  /\ UNCHANGED nonGuardVars

\* throw new ContractError(err);
ThrowContractError ==
  /\ guardPc = "awaiting"
  /\ func.settles = "reject"
  /\ InstanceOfError(func.with)
  /\ ~callback.supplied
  /\ guardPc' = "thrown"
  /\ guardOutcome' =
       [kind |-> "thrown", value |-> ContractError(func.with, "")]
  /\ UNCHANGED << func, callback, funcCalls, callbackCalls >>
  /\ UNCHANGED nonGuardVars

\* throw err;
Rethrow ==
  /\ guardPc = "awaiting"
  /\ func.settles = "reject"
  /\ ~InstanceOfError(func.with)
  /\ guardPc' = "thrown"
  /\ guardOutcome' = [kind |-> "thrown", value |-> func.with]
  /\ UNCHANGED << func, callback, funcCalls, callbackCalls >>
  /\ UNCHANGED nonGuardVars

NextGuard ==
  \/ CallFunc
  \/ ReturnAwaited
  \/ ThrowWithCode
  \/ ThrowContractError
  \/ Rethrow

GuardSpec == InitGuard /\ [][NextGuard]_vars

GuardSettled == guardPc \in {"returned", "thrown"}

\* C24: handleContractError forwards a successful result unchanged; when
\* the operation fails with an Error it throws a ContractError wrapping
\* that error, with the code the callback returned when a callback was
\* supplied; any other throwable is rethrown as it is. The operation is
\* invoked exactly once per call and the callback at most once.
C24_GuardWraps ==
  /\ funcCalls <= 1
  /\ callbackCalls <= 1
  /\ GuardSettled =>
       /\ funcCalls = 1
       /\ callbackCalls =
            (IF /\ func.settles = "reject"
                /\ InstanceOfError(func.with)
                /\ callback.supplied
             THEN 1 ELSE 0)
       /\ func.settles = "resolve" =>
            guardOutcome = [kind |-> "returned", value |-> func.with]
       /\ (func.settles = "reject" /\ InstanceOfError(func.with)) =>
            /\ guardOutcome.kind = "thrown"
            /\ guardOutcome.value.type = "ContractError"
            /\ guardOutcome.value.message = func.with.message
            /\ guardOutcome.value.originalType = func.with.type
            /\ guardOutcome.value.code =
                 (IF callback.supplied THEN callback.returns ELSE "")
       /\ (func.settles = "reject" /\ ~InstanceOfError(func.with)) =>
            guardOutcome = [kind |-> "thrown", value |-> func.with]

\* an Error was wrapped with the code the callback extracted
C24_Witness ==
  /\ guardPc = "thrown"
  /\ func.with.type = "TypeError"
  /\ callback.supplied
  /\ callbackCalls = 1
  /\ guardOutcome.value.code = "E2"

\* =================================================================
\* getBN and getNumberFromBN: token amounts in smallest units
\* =================================================================
\* A number is a decimal m * 10^e, kept with no trailing zero in m. The
\* values drawn below have a binary fraction (halves, quarters, ...) of at
\* most nine decimal digits, for which the double operations of the code
\* (value - trunc, * 1e9, / 10 ** decimals) are exact, as the BigNumber
\* operations are.

RECURSIVE Pow10(_)
Pow10(n) == IF n = 0 THEN 1 ELSE 10 * Pow10(n - 1)

Abs(i) == IF i < 0 THEN -i ELSE i

RECURSIVE NumDigits(_)
NumDigits(i) == IF Abs(i) < 10 THEN 1 ELSE 1 + NumDigits(Abs(i) \div 10)

RECURSIVE Normalize(_)
Normalize(x) ==
  IF x.kind # "finite" THEN x
  ELSE IF x.m = 0 THEN [kind |-> "finite", m |-> 0, e |-> 0]
  ELSE IF x.m % 10 = 0
    THEN Normalize([kind |-> "finite", m |-> x.m \div 10, e |-> x.e + 1])
  ELSE x

Num(m, e) == Normalize([kind |-> "finite", m |-> m, e |-> e])

NotANumber == [kind |-> "NaN", m |-> 0, e |-> 0]
PositiveInfinity == [kind |-> "Infinity", m |-> 0, e |-> 0]

IsFinite(x) == x.kind = "finite"

\* the value has no fractional part
IsInteger(x) == IsFinite(x) /\ x.e >= 0

\* BigNumber(n): the decimal the number prints as
BigNumber(n) == Normalize(n)

\* Math.trunc(value): towards zero
Math_trunc(x) ==
  IF ~IsFinite(x) \/ x.e >= 0 THEN x
  ELSE IF x.m < 0 THEN Num(-((-x.m) \div Pow10(-x.e)), 0)
  ELSE Num(x.m \div Pow10(-x.e), 0)

\* x + y and x.plus(y)
Plus(x, y) ==
  IF x.kind = "NaN" \/ y.kind = "NaN" THEN NotANumber
  ELSE IF ~IsFinite(x) \/ ~IsFinite(y) THEN PositiveInfinity
  ELSE IF x.m = 0 THEN y
  ELSE IF y.m = 0 THEN x
  ELSE LET e == Min(x.e, y.e)
       IN Num(x.m * Pow10(x.e - e) + y.m * Pow10(y.e - e), e)

\* x - y: Infinity - Infinity is NaN
Subtract(x, y) ==
  IF ~IsFinite(x) /\ ~IsFinite(y) THEN NotANumber
  ELSE Plus(x, [y EXCEPT !.m = -y.m])

\* x * y and x.times(y), for y # 0
Multiply(x, y) ==
  IF x.kind = "NaN" \/ y.kind = "NaN" THEN NotANumber
  ELSE IF ~IsFinite(x) \/ ~IsFinite(y) THEN PositiveInfinity
  ELSE Num(x.m * y.m, x.e + y.e)

\* 10 ** n and BigNumber(10).pow(n): exact, also for n < 0
TenToThe(n) == Num(1, n)

\* x / y and x.div(y) for y a power of ten: exact (the quotients here have
\* fewer than bignumber.js's 20 decimal places)
Divide(x, y) ==
  IF x.kind = "NaN" \/ y.kind = "NaN" THEN NotANumber
  ELSE IF ~IsFinite(x) THEN PositiveInfinity
  ELSE Num(x.m, x.e - y.e)

\* 2 ** 53 - 1 = 9007199254740991, in two halves of eight digits
MaxSafeHi == 90071992
MaxSafeLo == 54740991

\* value.gt(BigNumber(2 ** 53 - 1))
GtMaxSafe(x) ==
  IF x.kind = "NaN" THEN FALSE
  ELSE IF x.kind = "Infinity" THEN TRUE
  ELSE IF x.m <= 0 THEN FALSE
  ELSE IF NumDigits(x.m) + x.e > 16 THEN TRUE
  ELSE IF NumDigits(x.m) + x.e < 16 THEN FALSE
  ELSE LET hi == IF x.e >= 8 THEN x.m * Pow10(x.e - 8)
                 ELSE x.m \div Pow10(8 - x.e)
           lo == IF x.e >= 8 THEN 0
                 ELSE (x.m % Pow10(8 - x.e)) * Pow10(x.e)
       IN hi > MaxSafeHi \/ (hi = MaxSafeHi /\ lo > MaxSafeLo)

\* value.toNumber(): the double nearest to the decimal
toNumber(x) == Normalize(x)

\* getBN: nothing is rounded and nothing is validated
getBN(valueIn, decimalsIn) ==
  LET decimalPart == Subtract(valueIn, Math_trunc(valueIn))
      integerPart == BigNumber(Math_trunc(valueIn))
      decimalE == BigNumber(Multiply(decimalPart, TenToThe(9)))
      sum == Plus(Multiply(integerPart, BigNumber(TenToThe(9))), decimalE)
      resultE == Multiply(sum, TenToThe(decimalsIn))
  IN Divide(resultE, BigNumber(TenToThe(9)))

getNumberFromBN_aboveUnscaled(valueIn, decimalsIn) ==
  IF GtMaxSafe(valueIn)
  THEN toNumber(valueIn)
  ELSE Divide(toNumber(valueIn), TenToThe(decimalsIn))

getNumberFromBN(valueIn, decimalsIn) ==
  IF GtMaxSafe(valueIn)
  THEN toNumber(Divide(valueIn, BigNumber(TenToThe(decimalsIn))))
  ELSE Divide(toNumber(valueIn), TenToThe(decimalsIn))

\* the numbers handed to getBN
FiniteValues ==
  {Num(0, 0), Num(1, 0), Num(5, -1), Num(15, -1), Num(-15, -1),
   Num(25, -2), Num(275, -2), Num(125, -3), Num(1953125, -9), Num(100, 0),
   Num(9007199, 0), Num(900719925, -2), Num(9007200, 0), Num(1, 16)}

Values == FiniteValues \cup {NotANumber, PositiveInfinity}

Decimals == {-1, 0, 1, 2, 6, 9, 18}

InitAmount ==
  /\ IdleBatch
  /\ IdleUnlock
  /\ IdleOp
  /\ IdleGet
  /\ IdleClaim
  /\ IdleGuard
  /\ error = NoError
  /\ amountPc = "start"
  /\ valueArg \in Values
  /\ decimalsArg \in Decimals
  /\ bn = NoNumber
  /\ number = NoNumber

\* getBN(value, decimals)
CallGetBN ==
  /\ amountPc = "start"
  /\ amountPc' = "converted"
  /\ bn' = getBN(valueArg, decimalsArg)
  /\ UNCHANGED << valueArg, decimalsArg, number >>
  /\ UNCHANGED nonAmountVars

\* getNumberFromBN(bn, decimals)
CallGetNumberFromBN ==
  /\ amountPc = "converted"
  /\ amountPc' = "done"
  /\ number' = getNumberFromBN(bn, decimalsArg)
  /\ UNCHANGED << valueArg, decimalsArg, bn >>
  /\ UNCHANGED nonAmountVars

NextAmount ==
  \/ CallGetBN
  \/ CallGetNumberFromBN

AmountSpec == InitAmount /\ [][NextAmount]_vars

ValidInput == IsFinite(valueArg) /\ decimalsArg >= 0

\* C25: getBN returns an integer number of smallest units for every finite
\* value and every decimals >= 0: the result never has a fractional part,
\* also when value has more fractional digits than decimals.
C25_IntegerResult ==
  (amountPc # "start" /\ ValidInput) => IsInteger(bn)

\* C26: with decimals < 0 or a non-finite value the converters fail with
\* InvalidArgument instead of returning a result.
C26_InvalidRejected ==
  (amountPc # "start" /\ ~ValidInput) =>
    /\ error.class = "InvalidArgument"
    /\ bn = NoNumber
    /\ number = NoNumber

TokenAccountsOf(a) ==
  {<< a.senderTokens, a.sender >>}
    \cup (IF "recipientTokens" \in DOMAIN a
          THEN {<< a.recipientTokens, a.recipient >>,
                << a.streamflowTreasuryTokens, a.streamflowTreasury >>,
                << a.partnerTokens, a.partner >>}
          ELSE {})

\* C28: when native wrapping is not requested, every token account that
\* create or createUnchecked passes to the creation instruction is the
\* associated token account of the caller's token id, and that token id
\* is the mint account of the same instruction.
C28_TokenAccountsOfMint ==
  \A i \in DOMAIN ixs :
    (ixs[i].name \in {"create", "createUnchecked"} /\ ~ext.isNative) =>
      /\ ixs[i].accounts.mint = params.tokenId
      /\ \A t \in TokenAccountsOf(ixs[i].accounts) :
           t[1] = ata(ixs[i].accounts.mint, t[2])

\* =================================================================
\* createMultiple: nothing is submitted unless everything was prepared
\* =================================================================

\* C29: a creation transaction is submitted only after every recipient's
\* transaction was built, the sign-all request succeeded and, with native
\* wrapping, the wrap transaction was confirmed; when building, signing or
\* the wrap submission fails, createMultiple throws and no creation
\* transaction has been submitted.
C29_NothingSubmittedOnFailure ==
  /\ Submitted # {} =>
       /\ pc # "thrown"
       /\ Len(metadatas) = Len(recipients)
       /\ Len(batch) = Len(recipients) + (IF isNative THEN 1 ELSE 0)
       /\ Len(signRequests) = 1
       /\ Len(calls) = Len(recipients)
       /\ \A i \in DOMAIN signed_batch : signed_batch[i].tx.signed
       /\ isNative => wrapStatus = "fulfilled"
  /\ pc = "thrown" =>
       /\ Submitted = {}
       /\ error # NoError
       /\ ~result.returned

\* the whole batch was built and signed, the wrap transaction was rejected
C29_Witness ==
  /\ pc = "thrown"
  /\ Len(recipients) >= 2
  /\ Len(batch) = Len(recipients) + 1
  /\ wrapStatus = "rejected"
  /\ error = Rejection("sendAndConfirmStreamRawTransaction")
  /\ Submitted = {}

\* =================================================================
\* SolanaDistributorClient.claim
\* =================================================================

\* the distributor account of the airdrop and its token vault
DistributorA == 40
TokenVaultA == 45

\* getClaimantStatusPda(programId, distributor, claimant)
getClaimantStatusPda(d, claimant) == 500 + 10 * (d - DistributorA) + claimant

NoArgs == [amountLocked |-> 0, amountUnlocked |-> 0, proof |-> <<>>]

\* MerkleDistributor.fetch(connection, address): null when the account is
\* not there
MerkleDistributor_fetch(c, address) ==
  IF address \in c.distributors
  THEN [exists |-> TRUE, mint |-> MintA, tokenVault |-> TokenVaultA]
  ELSE NoAccount

\* ClaimStatus.fetch(connection, address): null when the account is not there
ClaimStatus_fetch(c, d, claimant) ==
  [fetched |-> TRUE, exists |-> << d, claimant >> \in c.claimed]

\* checkOrCreateAtaBatch(connection, [owner], mint, invoker): an instruction
\* that creates the owner's associated token account when it is missing
checkOrCreateAtaBatch(c, owner, mint) ==
  IF ata(mint, owner) \in c.tokenAccounts THEN <<>>
  ELSE << [name |-> "createAssociatedTokenAccount", args |-> NoArgs,
           accounts |-> [owner |-> owner, mint |-> mint,
                         to |-> ata(mint, owner)]] >>

\* const accounts: ClaimLockedAccounts | NewClaimAccounts
claimAccounts(cd, inv, d) ==
  [distributor |-> cd.id,
   claimStatus |-> getClaimantStatusPda(cd.id, inv.publicKey),
   from |-> d.tokenVault,
   to |-> ata(d.mint, inv.publicKey),
   claimant |-> inv.publicKey,
   mint |-> d.mint]

\* claimLocked(accounts, programId)
claimLocked(a) == [name |-> "claimLocked", args |-> NoArgs, accounts |-> a]

\* newClaim(args, accounts, programId)
newClaim(args, a) == [name |-> "newClaim", args |-> args, accounts |-> a]

ClaimDatas ==
  [id : {DistributorA}, amountLocked : {0, 5}, amountUnlocked : {1, 2},
   proof : {<< 7 >>, << 7, 8 >>}]

Chains ==
  [distributors : SUBSET {DistributorA},
   claimed : SUBSET ({DistributorA} \X {Alice, Bob}),
   tokenAccounts : SUBSET {ata(MintA, Alice), ata(MintA, Bob)}]

InitClaim ==
  /\ IdleBatch
  /\ IdleUnlock
  /\ IdleOp
  /\ IdleGet
  /\ IdleGuard
  /\ IdleAmount
  /\ error = NoError
  /\ claimPc = "start"
  /\ invoker \in [publicKey : {Null, Alice, Bob}]
  /\ claimData \in ClaimDatas
  /\ chain \in Chains
  /\ distributor = NoAccount
  /\ claimStatus = [fetched |-> FALSE, exists |-> FALSE]
  /\ claimIxs = <<>>
  /\ claimTx = <<>>
  /\ claimEffects = <<>>
  /\ claimResult = [ixs |-> <<>>, txId |-> ""]

\* the call throws e and stops
ClaimThrow(e) ==
  /\ claimPc' = "thrown"
  /\ error' = e
  /\ UNCHANGED << invoker, claimData, chain, distributor, claimStatus,
                  claimIxs, claimTx, claimResult >>
  /\ UNCHANGED nonClaimVars

\* if (!invoker.publicKey) throw new Error(...)
ClaimCheckPublicKey ==
  /\ claimPc = "start"
  /\ IF invoker.publicKey = Null
     THEN /\ ClaimThrow(Error("Invoker's PublicKey is not available, check passed wallet adapter!"))
          /\ UNCHANGED claimEffects
     ELSE /\ claimPc' = "fetchDistributor"
          /\ UNCHANGED << invoker, claimData, chain, distributor,
                          claimStatus, claimIxs, claimTx, claimEffects,
                          claimResult, error >>
          /\ UNCHANGED nonClaimVars

\* const distributor = await MerkleDistributor.fetch(...);
\* if (!distributor) throw new Error("Couldn't get account info");
FetchDistributor ==
  /\ claimPc = "fetchDistributor"
  /\ claimEffects' = Append(claimEffects, "MerkleDistributor.fetch")
  /\ \E rejected \in BOOLEAN :
       LET fetched == MerkleDistributor_fetch(chain, claimData.id)
       IN  IF rejected
           THEN ClaimThrow(Rejection("MerkleDistributor.fetch"))
           ELSE IF ~fetched.exists
           THEN ClaimThrow(Error("Couldn't get account info"))
           ELSE /\ distributor' = fetched
                /\ claimPc' = "checkAta"
                /\ UNCHANGED << invoker, claimData, chain, claimStatus,
                                claimIxs, claimTx, claimResult, error >>
                /\ UNCHANGED nonClaimVars

\* const ixs = await checkOrCreateAtaBatch(...)
CheckOrCreateAtaBatch ==
  /\ claimPc = "checkAta"
  /\ claimEffects' = Append(claimEffects, "checkOrCreateAtaBatch")
  /\ \E rejected \in BOOLEAN :
       IF rejected
       THEN ClaimThrow(Rejection("checkOrCreateAtaBatch"))
       ELSE /\ claimIxs' =
                 checkOrCreateAtaBatch(chain, invoker.publicKey,
                                       distributor.mint)
            /\ claimPc' = "fetchClaimStatus"
            /\ UNCHANGED << invoker, claimData, chain, distributor,
                            claimStatus, claimTx, claimResult, error >>
            /\ UNCHANGED nonClaimVars

\* const claimStatus = await ClaimStatus.fetch(connection, claimStatusPublicKey)
FetchClaimStatus ==
  /\ claimPc = "fetchClaimStatus"
  /\ claimEffects' = Append(claimEffects, "ClaimStatus.fetch")
  /\ \E rejected \in BOOLEAN :
       IF rejected
       THEN ClaimThrow(Rejection("ClaimStatus.fetch"))
       ELSE /\ claimStatus' =
                 ClaimStatus_fetch(chain, claimData.id, invoker.publicKey)
            /\ claimPc' = "push"
            /\ UNCHANGED << invoker, claimData, chain, distributor,
                            claimIxs, claimTx, claimResult, error >>
            /\ UNCHANGED nonClaimVars

\* a plausible slip: the two branches the wrong way round
PushClaimInstruction_inverted ==
  /\ claimPc = "push"
  /\ LET a == claimAccounts(claimData, invoker, distributor)
         args == [amountLocked |-> claimData.amountLocked,
                  amountUnlocked |-> claimData.amountUnlocked,
                  proof |-> claimData.proof]
     IN  claimIxs' = Append(claimIxs, IF claimStatus.exists
                                      THEN newClaim(args, a)
                                      ELSE claimLocked(a))
  /\ claimPc' = "blockhash"
  /\ UNCHANGED << invoker, claimData, chain, distributor, claimStatus,
                  claimTx, claimEffects, claimResult, error >>
  /\ UNCHANGED nonClaimVars

\* if (claimStatus) ixs.push(claimLocked(...)) else ixs.push(newClaim(...))
PushClaimInstruction ==
  /\ claimPc = "push"
  /\ LET a == claimAccounts(claimData, invoker, distributor)
         args == [amountLocked |-> claimData.amountLocked,
                  amountUnlocked |-> claimData.amountUnlocked,
                  proof |-> claimData.proof]
     IN  claimIxs' = Append(claimIxs, IF claimStatus.exists
                                      THEN claimLocked(a)
                                      ELSE newClaim(args, a))
  /\ claimPc' = "blockhash"
  /\ UNCHANGED << invoker, claimData, chain, distributor, claimStatus,
                  claimTx, claimEffects, claimResult, error >>
  /\ UNCHANGED nonClaimVars

\* const hash = await getLatestBlockhash(...); const tx = ....add(...ixs)
ClaimGetLatestBlockhash ==
  /\ claimPc = "blockhash"
  /\ claimEffects' = Append(claimEffects, "getLatestBlockhash")
  /\ \E rejected \in BOOLEAN :
       IF rejected
       THEN ClaimThrow(Rejection("getLatestBlockhash"))
       ELSE /\ claimTx' = claimIxs
            /\ claimPc' = "signAndExecute"
            /\ UNCHANGED << invoker, claimData, chain, distributor,
                            claimStatus, claimIxs, claimResult, error >>
            /\ UNCHANGED nonClaimVars

\* const signature = await wrappedSignAndExecuteTransaction(...);
\* return { ixs, txId: signature };
WrappedSignAndExecuteTransaction ==
  /\ claimPc = "signAndExecute"
  /\ \E outcome \in {"signRejected", "sendRejected", "confirmed"} :
       /\ claimEffects' =
            IF outcome = "signRejected"
            THEN Append(claimEffects, "signTransaction")
            ELSE claimEffects \o << "signTransaction", "sendTransaction" >>
       /\ IF outcome = "confirmed"
          THEN /\ claimResult' = [ixs |-> claimIxs, txId |-> "signature"]
               /\ claimPc' = "done"
               /\ UNCHANGED << invoker, claimData, chain, distributor,
                               claimStatus, claimIxs, claimTx, error >>
               /\ UNCHANGED nonClaimVars
          ELSE ClaimThrow(Rejection("wrappedSignAndExecuteTransaction"))

NextClaim ==
  \/ ClaimCheckPublicKey
  \/ FetchDistributor
  \/ CheckOrCreateAtaBatch
  \/ FetchClaimStatus
  \/ PushClaimInstruction
  \/ ClaimGetLatestBlockhash
  \/ WrappedSignAndExecuteTransaction

ClaimSpec == InitClaim /\ [][NextClaim]_vars

\* where ixs holds a claim instruction
ClaimPositions ==
  { i \in DOMAIN claimIxs : claimIxs[i].name \in {"newClaim", "claimLocked"} }

ClaimSigned ==
  \E i \in DOMAIN claimEffects :
    claimEffects[i] \in {"signTransaction", "sendTransaction"}

\* C30: claim builds exactly one claim instruction per call: newClaim,
\* carrying amountLocked, amountUnlocked and the proof, if and only if there
\* is no claim-status account on the ledger for the distributor and the
\* claimant, claimLocked otherwise; and when the distributor account cannot
\* be fetched the call fails and nothing was signed or submitted.
C30_OneClaimInstruction ==
  /\ Cardinality(ClaimPositions) <= 1
  /\ claimPc \in {"blockhash", "signAndExecute", "done"} =>
       /\ ClaimPositions = {Len(claimIxs)}
       /\ LET ix == claimIxs[Len(claimIxs)]
              absent == << claimData.id, invoker.publicKey >> \notin chain.claimed
          IN  /\ ix.name = (IF absent THEN "newClaim" ELSE "claimLocked")
              /\ absent =>
                   /\ ix.args.amountLocked = claimData.amountLocked
                   /\ ix.args.amountUnlocked = claimData.amountUnlocked
                   /\ ix.args.proof = claimData.proof
              /\ ix.accounts.distributor = claimData.id
              /\ ix.accounts.claimant = invoker.publicKey
              /\ ix.accounts.claimStatus =
                   getClaimantStatusPda(claimData.id, invoker.publicKey)
  /\ claimPc \in {"signAndExecute", "done"} => claimTx = claimIxs
  /\ claimPc = "done" => claimResult.ixs = claimIxs
  /\ ~distributor.exists =>
       /\ ~ClaimSigned
       /\ claimIxs = <<>>
       /\ claimPc \in {"start", "fetchDistributor", "thrown"}
  /\ (claimPc \notin {"start", "fetchDistributor"} /\ ~distributor.exists
        /\ invoker.publicKey # Null) =>
       /\ claimPc = "thrown"
       /\ error \in {Error("Couldn't get account info"),
                     Rejection("MerkleDistributor.fetch")}

\* a first claim went through: the token account was created and newClaim
\* carried a two-step proof
C30_Witness ==
  /\ claimPc = "done"
  /\ Len(claimIxs) = 2
  /\ claimIxs[2].name = "newClaim"
  /\ Len(claimIxs[2].args.proof) = 2
  /\ ClaimSigned

====
